---- MODULE Spec2Model ----
(***************************************************************************)
(* AdvancedMemory (src/advanced_memory/memory_handler.py): the tiered      *)
(* memory store behind the memory tool's six commands.                     *)
(*                                                                         *)
(* Text.  A Python str is modelled as a sequence of tokens.  A token is    *)
(* either one character ("A", "\n", "e'" for U+00E9) or a run of one       *)
(* character that occurs in no other token ("h*4000" is 4000 times "h"),   *)
(* or the six characters "Error:" that the callers look for at the start   *)
(* of a result.                                                            *)
(* CharLen gives what len() counts for a token, Utf8Len what the UTF-8     *)
(* encoding used by write_text(encoding="utf-8") produces.  Search         *)
(* strings (old_str) are built from one-character tokens, or are one whole *)
(* run, so token level search, count and replace agree with str.count and  *)
(* str.replace.                                                            *)
(*                                                                         *)
(* Time.  `now` is datetime.now().timestamp() in whole seconds; all the    *)
(* clock reads of one command see the same value, the clock advances       *)
(* between commands (action Tick).                                         *)
(*                                                                         *)
(* Left out: operation_counts and the LatencyTracker (metrics that no      *)
(* handler reads), MemoryBlock.importance_score (never read or written),   *)
(* view_range.                                                             *)
(***************************************************************************)
EXTENDS Integers, Sequences, FiniteSets, TLC

VARIABLES
    memory_blocks,       \* self.memory_blocks: tier -> ordered dict key -> MemoryBlock
    files,               \* the regular files under base_path/<tier>/: tier -> (name -> text)
    access_patterns,     \* self.access_patterns: key -> list of timestamps
    predicted_next,      \* self.predicted_next
    reorganize_counter,  \* self.reorganize_counter
    now,                 \* the wall clock, seconds
    call,                \* the tool_input of the latest handle_tool_call
    ret,                 \* the string that call returned
    ncalls,              \* handle_tool_call invocations since construction
    io_failed,           \* some file operation has raised since construction
    pass_ran,            \* the latest call ran _reorganize_memories
    moves,               \* the blocks the latest call moved: <<key, from tier, to tier>>
    placed,              \* what _determine_tier returned to the latest call, if it asked
    tool_memory,         \* the directory tree of a MemoryToolHandler
    official_memory,     \* the directory tree of a ClaudeOfficialMemory
    reverse_memory,      \* a ReverseEngineeredMemory: its directory tree, cache and index
    request,             \* the tool_input of the latest call of one of these three
    results,             \* the string the latest call of each of the three returned
    nrequests,           \* the calls of the three since construction
    used                 \* the paths read or written through the ReverseEngineeredMemory,
                         \* the least recently used first

vars == <<memory_blocks, files, access_patterns, predicted_next,
          reorganize_counter, now, call, ret, ncalls, io_failed, pass_ran, moves, placed,
          tool_memory, official_memory, reverse_memory, request, results, nrequests, used>>

\* the variables of the three handlers that are not the tiered engine
others == <<tool_memory, official_memory, reverse_memory, request, results, nrequests, used>>

----------------------------------------------------------------------------
(* Python str over tokens *)

\* len() of one token
CharLen(tok) ==
    CASE tok = "h*4000" -> 4000
      [] tok = "f*500" -> 500
      [] tok = "g*200000" -> 200000
      [] tok = "m*102400" -> 102400
      [] tok = "p*96" -> 96
      [] tok = "q*97" -> 97
      [] tok = "Error:" -> 6
      [] OTHER -> 1

\* bytes of one token in UTF-8
Utf8Bytes(tok) ==
    CASE tok = "e'" -> 2
      [] OTHER -> CharLen(tok)

\* len(s)
RECURSIVE PyLen(_)
PyLen(s) == IF s = <<>> THEN 0 ELSE CharLen(Head(s)) + PyLen(Tail(s))

\* len(s.encode("utf-8")): the size of the file write_text(s, encoding="utf-8") leaves
RECURSIVE Utf8Len(_)
Utf8Len(s) == IF s = <<>> THEN 0 ELSE Utf8Bytes(Head(s)) + Utf8Len(Tail(s))

\* s.startswith(p)
StartsWith(s, p) == Len(s) >= Len(p) /\ SubSeq(s, 1, Len(p)) = p

\* s[n:] for a token index n (0-based)
Drop(s, n) == SubSeq(s, n + 1, Len(s))

\* s.find(old, from position i): the least token position >= i where old occurs, 0 if none
RECURSIVE FindFrom(_, _, _)
FindFrom(s, old, i) ==
    IF i + Len(old) - 1 > Len(s) THEN 0
    ELSE IF SubSeq(s, i, i + Len(old) - 1) = old THEN i
    ELSE FindFrom(s, old, i + 1)

\* old in s
Contains(s, old) == FindFrom(s, old, 1) # 0

\* a faulty variant of Count: every position at which old occurs is counted,
\* overlapping ones too
Count_positions(s, old) ==
    Cardinality({i \in 1..(Len(s) + 1) : StartsWith(Drop(s, i - 1), old)})

\* s.count(old): non-overlapping occurrences, leftmost first
RECURSIVE CountFrom(_, _, _)
CountFrom(s, old, i) ==
    IF old = <<>> THEN Len(s) + 1
    ELSE LET j == FindFrom(s, old, i)
         IN IF j = 0 THEN 0 ELSE 1 + CountFrom(s, old, j + Len(old))

Count(s, old) == CountFrom(s, old, 1)

\* s.replace(old, new)
RECURSIVE ReplaceFrom(_, _, _, _)
ReplaceFrom(s, old, new, i) ==
    IF old = <<>>
    THEN IF i > Len(s) THEN new
         ELSE new \o <<s[i]>> \o ReplaceFrom(s, old, new, i + 1)
    ELSE LET j == FindFrom(s, old, i)
         IN IF j = 0 THEN SubSeq(s, i, Len(s))
            ELSE SubSeq(s, i, j - 1) \o new \o ReplaceFrom(s, old, new, j + Len(old))

Replace(s, old, new) == ReplaceFrom(s, old, new, 1)

\* s.replace("/", "_"); the token "/memories" is a "/" and the name "memories"
RECURSIVE ReplaceSlash(_)
ReplaceSlash(s) ==
    IF s = <<>> THEN <<>>
    ELSE (CASE Head(s) = "/" -> <<"_">>
            [] Head(s) = "/memories" -> <<"_", "memories">>
            [] OTHER -> <<Head(s)>>) \o ReplaceSlash(Tail(s))

\* s.splitlines(): a list of lines, no empty last line after a final "\n"
RECURSIVE SplitLines(_)
SplitLines(s) ==
    IF s = <<>> THEN <<>>
    ELSE LET n == FindFrom(s, <<"\n">>, 1)
             r == FindFrom(s, <<"\r">>, 1)
             j == IF r # 0 /\ (n = 0 \/ r < n) THEN r ELSE n
             k == IF j = r /\ n = r + 1 THEN n ELSE j
         IN IF j = 0 THEN <<s>>
            ELSE <<SubSeq(s, 1, j - 1)>> \o SplitLines(Drop(s, k))

\* "\n".join(lines)
RECURSIVE JoinLines(_)
JoinLines(lines) ==
    IF lines = <<>> THEN <<>>
    ELSE IF Len(lines) = 1 THEN lines[1]
    ELSE lines[1] \o <<"\n">> \o JoinLines(Tail(lines))

\* lines.insert(n, x) for 0 <= n
ListInsert(lines, n, x) ==
    IF n >= Len(lines) THEN Append(lines, x)
    ELSE SubSeq(lines, 1, n) \o <<x>> \o SubSeq(lines, n + 1, Len(lines))

\* a faulty variant of PadLines: a list that is too short is left as it is
PadLines_none(lines, n) == lines

\* while len(lines) < n: lines.append("")
RECURSIVE PadLines(_, _)
PadLines(lines, n) ==
    IF Len(lines) < n THEN PadLines(Append(lines, <<>>), n) ELSE lines

----------------------------------------------------------------------------
(* MemoryTier, TIER_LIMITS and the thresholds of the policies *)

WORKING == "working"
ARCHIVAL == "archival"
OVERFLOW == "overflow"

\* "for tier in MemoryTier": the enum's declaration order
MemoryTier == <<WORKING, ARCHIVAL, OVERFLOW>>

Tiers == {WORKING, ARCHIVAL, OVERFLOW}

WorkingLimit == 4096

ArchivalLimit == 102400

RecentWindow == 300

RecentAccesses == 3

PromoteCount == 5

DemoteAge == 600

ArchiveAge == 3600

PredictWindow == 10

ReorganizeThreshold == 10

\* the string the command interface and the sanitizer call the virtual root
Root == <<"/memories">>

----------------------------------------------------------------------------
(* dict (insertion ordered): a sequence of [key, block] entries *)

DictKeys(d) == {d[i].key : i \in DOMAIN d}

Has(d, k) == k \in DictKeys(d)

Get(d, k) == d[CHOOSE i \in DOMAIN d : d[i].key = k].block

\* d[k] = b: an existing key keeps its place, a new one goes last
Put(d, k, b) ==
    IF Has(d, k)
    THEN [i \in DOMAIN d |-> IF d[i].key = k THEN [key |-> k, block |-> b] ELSE d[i]]
    ELSE Append(d, [key |-> k, block |-> b])

\* del d[k] / d.pop(k)
Del(d, k) == SelectSeq(d, LAMBDA e : e.key # k)

RECURSIVE SumSizes(_)
SumSizes(d) == IF d = <<>> THEN 0 ELSE Head(d).block.size_bytes + SumSizes(Tail(d))

\* sum(b.size_bytes for b in self.memory_blocks[MemoryTier.WORKING].values())
WorkingSize(self) == SumSizes(self.memory_blocks[WORKING])

----------------------------------------------------------------------------
(* the tier directories.  tier_paths[tier] / name is the directory itself   *)
(* when name is empty: it exists, and write_text, unlink and rename on it   *)
(* raise (IsADirectoryError and the like).                                  *)

IsDirName(name) == name = <<>>

\* (tier_paths[tier] / name).exists()
Exists(self, tier, name) == IsDirName(name) \/ name \in DOMAIN self.files[tier]

\* the files of a directory after write_text(text) to name
WriteText(dir, name, text) == [n \in DOMAIN dir \cup {name} |-> IF n = name THEN text ELSE dir[n]]

\* the files of a directory after unlink() of name
Unlink(dir, name) == [n \in DOMAIN dir \ {name} |-> dir[n]]

\* access_patterns after access_patterns[key] = times
SetTimes(patterns, key, times) ==
    [k \in DOMAIN patterns \cup {key} |-> IF k = key THEN times ELSE patterns[k]]

\* access_patterns after access_patterns.pop(key, None)
PopTimes(patterns, key) == [k \in DOMAIN patterns \ {key} |-> patterns[k]]

\* what a raising statement leaves: the state reached so far, and the exception
Raised(self, msg) == [self |-> [self EXCEPT !.io_failed = TRUE], raised |-> TRUE, result |-> msg]

Returned(self, result) == [self |-> self, raised |-> FALSE, result |-> result]

\* the statements F that follow r, skipped when r raised; r is worked out once
Then(r, F(_)) == CHOOSE after \in {IF done.raised THEN done ELSE F(done) : done \in {r}} : TRUE

IsADirectoryError == <<" [Errno 21] Is a directory">>

\* rename of a file onto the tier directory, which still holds that file
DirectoryNotEmptyError == <<" [Errno 39] Directory not empty">>

\* rename of the tier directory to a path below itself
InvalidArgumentError == <<" [Errno 22] Invalid argument">>

----------------------------------------------------------------------------
(* _validate_path, lines 228-238 *)

validate_path(path) ==
    LET p1 == IF StartsWith(path, Root) THEN Drop(path, 1) ELSE path
        p2 == IF StartsWith(p1, <<"/">>) THEN Drop(p1, 1)
              ELSE IF StartsWith(p1, Root) THEN <<"memories">> \o Drop(p1, 1)
              ELSE p1
    IN ReplaceSlash(p2)

----------------------------------------------------------------------------
(* MemoryBlock, lines 36-50 *)

MemoryBlock(content, tier, t) ==
    [content |-> content, tier |-> tier, access_count |-> 0, last_access |-> t,
     created_at |-> t, size_bytes |-> PyLen(content)]

\* a faulty variant of update_access: the time of the access is not recorded
update_access_count_only(block, t) ==
    [block EXCEPT !.access_count = @ + 1]

\* update_access, lines 47-50
update_access(block, t) ==
    [block EXCEPT !.access_count = @ + 1, !.last_access = t]

----------------------------------------------------------------------------
(* _determine_tier, lines 136-160 *)

\* len([t for t in self.access_patterns[path] if now - t < 300])
recent_accesses(self, t, path) ==
    Cardinality({i \in DOMAIN self.access_patterns[path] :
                    t - self.access_patterns[path][i] < RecentWindow})

\* a faulty variant of determine_tier: the access history is never consulted
determine_tier_by_size_only(self, t, path, content) ==
    LET size == PyLen(content)
    IN IF size <= WorkingLimit /\ WorkingSize(self) + size <= WorkingLimit
       THEN WORKING
       ELSE IF size <= ArchivalLimit
       THEN ARCHIVAL
       ELSE OVERFLOW

\* a faulty variant of determine_tier: only the per-file cap guards the working
\* tier, its total is never looked at
determine_tier_per_file_cap(self, t, path, content) ==
    LET size == PyLen(content)
    IN IF path \in DOMAIN self.access_patterns /\ recent_accesses(self, t, path) > RecentAccesses
       THEN WORKING
       ELSE IF size <= WorkingLimit
       THEN WORKING
       ELSE IF size <= ArchivalLimit
       THEN ARCHIVAL
       ELSE OVERFLOW

determine_tier(self, t, path, content) ==
    LET size == PyLen(content)
    IN IF path \in DOMAIN self.access_patterns /\ recent_accesses(self, t, path) > RecentAccesses
       THEN WORKING
       ELSE IF size <= WorkingLimit /\ WorkingSize(self) + size <= WorkingLimit
       THEN WORKING
       ELSE IF size <= ArchivalLimit
       THEN ARCHIVAL
       ELSE OVERFLOW

----------------------------------------------------------------------------
(* _predict_next_access, lines 162-178: the new predicted_next *)

Abs(x) == IF x < 0 THEN 0 - x ELSE x

predict_next_access_accumulating(self, current_path) ==
    IF current_path \in DOMAIN self.access_patterns /\ self.access_patterns[current_path] # <<>>
    THEN LET current_times == self.access_patterns[current_path]
             last_time == current_times[Len(current_times)]
         IN (self.predicted_next \ {current_path}) \cup
            {other_path \in DOMAIN self.access_patterns \ {current_path} :
                \E i \in DOMAIN self.access_patterns[other_path] :
                    Abs(self.access_patterns[other_path][i] - last_time) < PredictWindow}
    ELSE {}

predict_next_access(self, current_path) ==
    IF current_path \in DOMAIN self.access_patterns /\ self.access_patterns[current_path] # <<>>
    THEN LET current_times == self.access_patterns[current_path]
             last_time == current_times[Len(current_times)]
         IN {other_path \in DOMAIN self.access_patterns \ {current_path} :
                \E i \in DOMAIN self.access_patterns[other_path] :
                    Abs(self.access_patterns[other_path][i] - last_time) < PredictWindow}
    ELSE {}

----------------------------------------------------------------------------
(* _move_between_tiers, lines 211-226 *)

\* a faulty variant of move_file: the file is written to the new tier's
\* directory and the old one is never unlinked
move_file_keeps_source(self, path, from_tier, to_tier, content) ==
    IF ~Exists(self, from_tier, path)
    THEN Returned(self, <<>>)
    ELSE IF IsDirName(path)
    THEN Raised(self, IsADirectoryError)
    ELSE Returned([self EXCEPT !.files[to_tier] = WriteText(@, path, content)], <<>>)

\* lines 220-226: the block is in to_tier's mapping already
move_file(self, path, from_tier, to_tier, content) ==
    IF ~Exists(self, from_tier, path)
    THEN Returned(self, <<>>)
    ELSE IF IsDirName(path)
    THEN Raised(self, IsADirectoryError)
    ELSE Returned([self EXCEPT !.files[to_tier] = WriteText(@, path, content),
                               !.files[from_tier] = Unlink(@, path)], <<>>)

\* lines 216-218
move_block(self, path, from_tier, to_tier, block) ==
    [self EXCEPT !.memory_blocks[from_tier] = Del(@, path),
                 !.memory_blocks[to_tier] = Put(@, path, [block EXCEPT !.tier = to_tier]),
                 !.moves = Append(@, <<path, from_tier, to_tier>>)]

move_between_tiers(self, path, from_tier, to_tier) ==
    IF ~Has(self.memory_blocks[from_tier], path)
    THEN Returned(self, <<>>)
    ELSE move_file(move_block(self, path, from_tier, to_tier,
                              Get(self.memory_blocks[from_tier], path)),
                   path, from_tier, to_tier,
                   Get(self.memory_blocks[from_tier], path).content)

----------------------------------------------------------------------------
(* _reorganize_memories, lines 188-209: each loop runs over list(...items()), *)
(* the entries of the tier when the loop starts, in the dict's order; a       *)
(* raising move ends the pass                                                 *)

\* a faulty variant of ShouldPromote: the recency comparison is reversed
ShouldPromote_idle(self, t, block) ==
    /\ block.access_count > PromoteCount
    /\ t - block.last_access > RecentWindow
    /\ WorkingSize(self) + block.size_bytes <= WorkingLimit

\* a faulty variant of ShouldPromote: the room left in working is not looked at
ShouldPromote_ungated(self, t, block) ==
    /\ block.access_count > PromoteCount
    /\ t - block.last_access < RecentWindow

\* lines 194-197
ShouldPromote(self, t, block) ==
    /\ block.access_count > PromoteCount
    /\ t - block.last_access < RecentWindow
    /\ WorkingSize(self) + block.size_bytes <= WorkingLimit

\* line 203
ShouldDemote(t, block) == t - block.last_access > DemoteAge

\* a faulty variant of ShouldArchive: a block that was ever read or edited is
\* not moved to overflow
ShouldArchive_unread(t, block) ==
    t - block.last_access > ArchiveAge /\ block.access_count = 0

\* line 208
ShouldArchive(t, block) == t - block.last_access > ArchiveAge

RECURSIVE PromoteLoop(_, _, _, _)
PromoteLoop(self, t, items, i) ==
    IF i > Len(items) THEN Returned(self, <<>>)
    ELSE Then(IF ShouldPromote(self, t, items[i].block)
              THEN move_between_tiers(self, items[i].key, ARCHIVAL, WORKING)
              ELSE Returned(self, <<>>),
              LAMBDA m : PromoteLoop(m.self, t, items, i + 1))

RECURSIVE DemoteLoop(_, _, _, _)
DemoteLoop(self, t, items, i) ==
    IF i > Len(items) THEN Returned(self, <<>>)
    ELSE Then(IF ShouldDemote(t, items[i].block)
              THEN move_between_tiers(self, items[i].key, WORKING, ARCHIVAL)
              ELSE Returned(self, <<>>),
              LAMBDA m : DemoteLoop(m.self, t, items, i + 1))

RECURSIVE ArchiveLoop(_, _, _, _)
ArchiveLoop(self, t, items, i) ==
    IF i > Len(items) THEN Returned(self, <<>>)
    ELSE Then(IF ShouldArchive(t, items[i].block)
              THEN move_between_tiers(self, items[i].key, ARCHIVAL, OVERFLOW)
              ELSE Returned(self, <<>>),
              LAMBDA m : ArchiveLoop(m.self, t, items, i + 1))

reorganize_memories(self, t) ==
    Then(Then(PromoteLoop(self, t, self.memory_blocks[ARCHIVAL], 1),
              LAMBDA p : DemoteLoop(p.self, t, p.self.memory_blocks[WORKING], 1)),
         LAMBDA p : ArchiveLoop(p.self, t, p.self.memory_blocks[ARCHIVAL], 1))

----------------------------------------------------------------------------
(* _reorganize_if_needed, lines 180-186 *)

reorganize_if_needed(self, t) ==
    IF self.reorganize_counter + 1 >= ReorganizeThreshold
    THEN Then(reorganize_memories([self EXCEPT !.reorganize_counter = @ + 1,
                                               !.pass_ran = TRUE], t),
              LAMBDA r : Returned([r.self EXCEPT !.reorganize_counter = 0], <<>>))
    ELSE Returned([self EXCEPT !.reorganize_counter = @ + 1], <<>>)

----------------------------------------------------------------------------
(* _find_in_tiers, lines 240-253: the tier whose block is returned, or None *)

None == "None"

RECURSIVE FirstTier(_, _, _, _)
FirstTier(self, clean_name, order, i) ==
    IF i > Len(order) THEN None
    ELSE IF Has(self.memory_blocks[order[i]], clean_name) THEN order[i]
    ELSE FirstTier(self, clean_name, order, i + 1)

find_in_tiers_fast_path_only(self, clean_name) ==
    IF clean_name \in self.predicted_next
    THEN FirstTier(self, clean_name, <<WORKING, ARCHIVAL>>, 1)
    ELSE FirstTier(self, clean_name, MemoryTier, 1)

find_in_tiers(self, clean_name) ==
    LET fast == IF clean_name \in self.predicted_next
                THEN FirstTier(self, clean_name, <<WORKING, ARCHIVAL>>, 1)
                ELSE None
    IN IF fast # None THEN fast ELSE FirstTier(self, clean_name, MemoryTier, 1)

----------------------------------------------------------------------------
(* the command handlers.  Each gives [self, raised, result]: the engine     *)
(* after the handler, whether it left by an exception, and the returned     *)
(* string (the exception's text when raised).                               *)

Error(msg) == <<"Error:">> \o msg

\* result.startswith("Error:")
IsError(result) == result # <<>> /\ result[1] = "Error:"

\* a faulty variant of view: a miss reads self.access_patterns[clean_name], and
\* the defaultdict makes an empty history for the key
view_recording_misses(self, t, path) ==
    LET clean_name == validate_path(path)
    IN IF path \in {Root, <<>>}
       THEN Returned(self, <<"Directory: /memories", "\n",
                IF \A tier \in Tiers : self.memory_blocks[tier] = <<>> THEN "(empty)" ELSE "(items)">>)
       ELSE LET tier == find_in_tiers(self, clean_name)
                times == IF clean_name \in DOMAIN self.access_patterns
                         THEN self.access_patterns[clean_name] ELSE <<>>
            IN IF tier = None
               THEN Returned([self EXCEPT !.access_patterns = SetTimes(@, clean_name, times)],
                             Error(<<" Path does not exist: ">> \o path))
               ELSE LET block == update_access(Get(self.memory_blocks[tier], clean_name), t)
                        s1 == [self EXCEPT
                                 !.memory_blocks[tier] = Put(@, clean_name, block),
                                 !.access_patterns = SetTimes(@, clean_name, Append(times, t))]
                    IN Returned([s1 EXCEPT !.predicted_next = predict_next_access(s1, clean_name)],
                                block.content)

\* view, lines 293-342, for view_range = None.  The listing of the root is kept
\* up to whether it is empty.
view(self, t, path) ==
    LET clean_name == validate_path(path)
    IN IF path \in {Root, <<>>}
       THEN Returned(self, <<"Directory: /memories", "\n",
                IF \A tier \in Tiers : self.memory_blocks[tier] = <<>> THEN "(empty)" ELSE "(items)">>)
       ELSE LET tier == find_in_tiers(self, clean_name)
            IN IF tier = None
               THEN Returned(self, Error(<<" Path does not exist: ">> \o path))
               ELSE LET block == update_access(Get(self.memory_blocks[tier], clean_name), t)
                        times == IF clean_name \in DOMAIN self.access_patterns
                                 THEN self.access_patterns[clean_name] ELSE <<>>
                        s1 == [self EXCEPT
                                 !.memory_blocks[tier] = Put(@, clean_name, block),
                                 !.access_patterns = SetTimes(@, clean_name, Append(times, t))]
                    IN Returned([s1 EXCEPT !.predicted_next = predict_next_access(s1, clean_name)],
                                block.content)

\* create, lines 344-367
create(self, t, path, file_text) ==
    LET clean_name == validate_path(path)
        tier == determine_tier(self, t, clean_name, file_text)
        block == MemoryBlock(file_text, tier, t)
        s1 == [self EXCEPT !.memory_blocks[tier] = Put(@, clean_name, block),
                           !.placed = tier]
    IN IF IsDirName(clean_name)
       THEN Raised(s1, IsADirectoryError)
       ELSE Returned([s1 EXCEPT !.files[tier] = WriteText(@, clean_name, file_text)],
                     <<"Created file: ">> \o path \o <<" (tier: ", tier, ")">>)

\* lines 393-395 and 430-432: tier_path.write_text(block.content)
write_block(self, clean_name, tier, success) ==
    IF IsDirName(clean_name)
    THEN Raised(self, IsADirectoryError)
    ELSE Returned([self EXCEPT !.files[tier] =
                      WriteText(@, clean_name, Get(self.memory_blocks[tier], clean_name).content)],
                  success)

\* lines 389-395 and 426-432
move_and_write(self, clean_name, tier, new_tier, success) ==
    Then(IF new_tier # tier
         THEN move_between_tiers([self EXCEPT !.placed = new_tier], clean_name, tier, new_tier)
         ELSE Returned([self EXCEPT !.placed = new_tier], <<>>),
         LAMBDA m : write_block(m.self, clean_name, new_tier, success))

\* a faulty variant of replace_and_write: a block found in overflow is never
\* placed again
replace_and_write_keeps_overflow(self, t, clean_name, tier, success) ==
    move_and_write(self, clean_name, tier,
                   IF tier = OVERFLOW
                   THEN OVERFLOW
                   ELSE determine_tier(self, t, clean_name,
                                       Get(self.memory_blocks[tier], clean_name).content),
                   success)

\* a faulty variant of replace_and_write: the block stays in the tier it was
\* found in, however large it has become
replace_and_write_in_place(self, t, clean_name, tier, success) ==
    move_and_write(self, clean_name, tier, tier, success)

\* lines 387-395 and 424-432, shared by str_replace and insert: the block, already
\* changed in place in `tier`, is placed again and written
replace_and_write(self, t, clean_name, tier, success) ==
    move_and_write(self, clean_name, tier,
                   determine_tier(self, t, clean_name,
                                  Get(self.memory_blocks[tier], clean_name).content),
                   success)

\* a faulty variant of str_replace: the write is not recorded as an access
str_replace_without_access(self, t, path, old_str, new_str) ==
    LET clean_name == validate_path(path)
        tier == find_in_tiers(self, clean_name)
    IN IF tier = None
       THEN Returned(self, Error(<<" File does not exist: ">> \o path))
       ELSE LET block == Get(self.memory_blocks[tier], clean_name)
            IN IF ~Contains(block.content, old_str)
               THEN Returned(self, Error(<<" String not found in file">>))
               ELSE LET count == Count(block.content, old_str)
                        content == Replace(block.content, old_str, new_str)
                        b1 == [block EXCEPT !.content = content, !.size_bytes = PyLen(content)]
                        s1 == [self EXCEPT !.memory_blocks[tier] = Put(@, clean_name, b1)]
                    IN replace_and_write(s1, t, clean_name, tier,
                           <<"Replaced ", ToString(count), " occurrence(s) in ">> \o path)

\* str_replace, lines 369-397
str_replace(self, t, path, old_str, new_str) ==
    LET clean_name == validate_path(path)
        tier == find_in_tiers(self, clean_name)
    IN IF tier = None
       THEN Returned(self, Error(<<" File does not exist: ">> \o path))
       ELSE LET block == Get(self.memory_blocks[tier], clean_name)
            IN IF ~Contains(block.content, old_str)
               THEN Returned(self, Error(<<" String not found in file">>))
               ELSE LET count == Count(block.content, old_str)
                        content == Replace(block.content, old_str, new_str)
                        b1 == update_access([block EXCEPT !.content = content,
                                                          !.size_bytes = PyLen(content)], t)
                        s1 == [self EXCEPT !.memory_blocks[tier] = Put(@, clean_name, b1)]
                    IN replace_and_write(s1, t, clean_name, tier,
                           <<"Replaced ", ToString(count), " occurrence(s) in ">> \o path)

\* a faulty variant of insert: a key stored in no tier is an Error at every line
insert_never_creates(self, t, path, insert_line, insert_text) ==
    LET clean_name == validate_path(path)
        tier == find_in_tiers(self, clean_name)
    IN IF tier = None
       THEN Returned(self, Error(<<" Cannot insert at line ", ToString(insert_line),
                                   " in non-existent file">>))
       ELSE LET block == Get(self.memory_blocks[tier], clean_name)
            IN IF insert_line < 0
               THEN Returned(self, Error(<<" Line number must be non-negative">>))
               ELSE LET lines == ListInsert(PadLines(SplitLines(block.content), insert_line),
                                            insert_line, insert_text)
                        content == JoinLines(lines)
                        b1 == update_access([block EXCEPT !.content = content,
                                                          !.size_bytes = PyLen(content)], t)
                        s1 == [self EXCEPT !.memory_blocks[tier] = Put(@, clean_name, b1)]
                    IN replace_and_write(s1, t, clean_name, tier,
                           <<"Inserted text at line ", ToString(insert_line), " in ">> \o path)

\* insert, lines 399-434
insert(self, t, path, insert_line, insert_text) ==
    LET clean_name == validate_path(path)
        tier == find_in_tiers(self, clean_name)
    IN IF tier = None
       THEN IF insert_line = 0
            THEN create(self, t, path, insert_text)
            ELSE Returned(self, Error(<<" Cannot insert at line ", ToString(insert_line),
                                        " in non-existent file">>))
       ELSE LET block == Get(self.memory_blocks[tier], clean_name)
            IN IF insert_line < 0
               THEN Returned(self, Error(<<" Line number must be non-negative">>))
               ELSE LET lines == ListInsert(PadLines(SplitLines(block.content), insert_line),
                                            insert_line, insert_text)
                        content == JoinLines(lines)
                        b1 == update_access([block EXCEPT !.content = content,
                                                          !.size_bytes = PyLen(content)], t)
                        s1 == [self EXCEPT !.memory_blocks[tier] = Put(@, clean_name, b1)]
                    IN replace_and_write(s1, t, clean_name, tier,
                           <<"Inserted text at line ", ToString(insert_line), " in ">> \o path)

\* delete, lines 436-458
delete(self, path) ==
    LET clean_name == validate_path(path)
        tier == find_in_tiers(self, clean_name)
    IN IF tier = None
       THEN Returned(self, Error(<<" Path does not exist: ">> \o path))
       ELSE LET s1 == [self EXCEPT !.memory_blocks[tier] = Del(@, clean_name)]
            IN IF IsDirName(clean_name)
               THEN Raised(s1, IsADirectoryError)
               ELSE Returned([s1 EXCEPT
                                !.files[tier] = Unlink(@, clean_name),
                                !.access_patterns = PopTimes(@, clean_name),
                                !.predicted_next = @ \ {clean_name}],
                             <<"Deleted file: ">> \o path)

\* rename, lines 460-490
rename(self, old_path, new_path) ==
    LET old_name == validate_path(old_path)
        new_name == validate_path(new_path)
        tier == find_in_tiers(self, old_name)
    IN IF tier = None
       THEN Returned(self, Error(<<" Source path does not exist: ">> \o old_path))
       ELSE IF find_in_tiers(self, new_name) # None
       THEN Returned(self, Error(<<" Destination already exists: ">> \o new_path))
       ELSE LET block == Get(self.memory_blocks[tier], old_name)
                s1 == [self EXCEPT !.memory_blocks[tier] = Put(Del(@, old_name), new_name, block)]
                moved == IF Exists(s1, tier, old_name)
                         THEN [s1 EXCEPT !.files[tier] =
                                  WriteText(Unlink(@, old_name), new_name, s1.files[tier][old_name])]
                         ELSE s1
            IN IF IsDirName(old_name)
               THEN Raised(s1, InvalidArgumentError)
               ELSE IF Exists(s1, tier, old_name) /\ IsDirName(new_name)
               THEN Raised(s1, DirectoryNotEmptyError)
               ELSE Returned(
                      IF old_name \in DOMAIN moved.access_patterns
                      THEN [moved EXCEPT !.access_patterns =
                               SetTimes(PopTimes(@, old_name), new_name, moved.access_patterns[old_name])]
                      ELSE moved,
                      <<"Renamed ">> \o old_path \o <<" to ">> \o new_path)

----------------------------------------------------------------------------
(* the dispatcher.  A tool_input is a record; a field the caller left out   *)
(* is not in its domain.                                                    *)

Given(input_data, field) == field \in DOMAIN input_data

\* "not x" for a str field: absent (None) or empty
Falsy(input_data, field) == ~Given(input_data, field) \/ input_data[field] = <<>>

\* _handle_view, lines 286-291
handle_view(self, t, input_data) ==
    view(self, t, IF Given(input_data, "path") THEN input_data.path ELSE Root)

\* a faulty variant of handle_create: a request without file_text is an Error
handle_create_requires_text(self, t, input_data) ==
    IF Falsy(input_data, "path") \/ ~Given(input_data, "file_text")
    THEN Returned(self, Error(<<" Missing required parameters">>))
    ELSE create(self, t, input_data.path, input_data.file_text)

\* _handle_create, lines 492-497
handle_create(self, t, input_data) ==
    IF Falsy(input_data, "path")
    THEN Returned(self, Error(<<" No path specified">>))
    ELSE create(self, t, input_data.path,
                IF Given(input_data, "file_text") THEN input_data.file_text ELSE <<>>)

\* _handle_str_replace, lines 499-505
handle_str_replace(self, t, input_data) ==
    IF Falsy(input_data, "path") \/ ~Given(input_data, "old_str") \/ ~Given(input_data, "new_str")
    THEN Returned(self, Error(<<" Missing required parameters">>))
    ELSE str_replace(self, t, input_data.path, input_data.old_str, input_data.new_str)

\* _handle_insert, lines 507-513
handle_insert(self, t, input_data) ==
    IF Falsy(input_data, "path") \/ ~Given(input_data, "insert_line")
    THEN Returned(self, Error(<<" Missing required parameters">>))
    ELSE insert(self, t, input_data.path, input_data.insert_line,
                IF Given(input_data, "insert_text") THEN input_data.insert_text ELSE <<>>)

\* _handle_delete, lines 515-519
handle_delete(self, input_data) ==
    IF Falsy(input_data, "path")
    THEN Returned(self, Error(<<" No path specified">>))
    ELSE delete(self, input_data.path)

\* _handle_rename, lines 521-526
handle_rename(self, input_data) ==
    IF Falsy(input_data, "old_path") \/ Falsy(input_data, "new_path")
    THEN Returned(self, Error(<<" Both paths required">>))
    ELSE rename(self, input_data.old_path, input_data.new_path)

Commands == {"view", "create", "str_replace", "insert", "delete", "rename"}

\* handlers.get(command)(tool_input), lines 262-277
handler(self, t, tool_input) ==
    CASE tool_input.command = "view" -> handle_view(self, t, tool_input)
      [] tool_input.command = "create" -> handle_create(self, t, tool_input)
      [] tool_input.command = "str_replace" -> handle_str_replace(self, t, tool_input)
      [] tool_input.command = "insert" -> handle_insert(self, t, tool_input)
      [] tool_input.command = "delete" -> handle_delete(self, tool_input)
      [] tool_input.command = "rename" -> handle_rename(self, tool_input)

\* lines 283-284: except Exception as e: return f"Error: {str(e)}"
Catch(r) ==
    CHOOSE after \in {IF done.raised THEN [done EXCEPT !.result = Error(@)] ELSE done :
                          done \in {r}} : TRUE

\* a faulty variant of handle_tool_call: the reorganization check is skipped
\* when the handler returned an Error string
handle_tool_call_on_success_only(self, t, tool_input) ==
    IF ~Given(tool_input, "command") \/ tool_input.command = ""
    THEN Returned(self, Error(<<" No command specified">>))
    ELSE IF tool_input.command \notin Commands
    THEN Returned(self, Error(<<" Unknown command '", tool_input.command, "'">>))
    ELSE Catch(Then(handler(self, t, tool_input),
                    LAMBDA h : IF IsError(h.result)
                               THEN h
                               ELSE Then(reorganize_if_needed(h.self, t),
                                         LAMBDA r : Returned(r.self, h.result))))

\* a faulty variant of handle_tool_call: the reorganization check is made after
\* the try block, where nothing catches what it raises
handle_tool_call_unguarded_check(self, t, tool_input) ==
    IF ~Given(tool_input, "command") \/ tool_input.command = ""
    THEN Returned(self, Error(<<" No command specified">>))
    ELSE IF tool_input.command \notin Commands
    THEN Returned(self, Error(<<" Unknown command '", tool_input.command, "'">>))
    ELSE Then(Catch(handler(self, t, tool_input)),
              LAMBDA h : IF h.raised
                         THEN h
                         ELSE Then(reorganize_if_needed(h.self, t),
                                   LAMBDA r : Returned(r.self, h.result)))

\* handle_tool_call, lines 255-284: [self, raised, result], raised when the try
\* block was left by an exception
handle_tool_call(self, t, tool_input) ==
    IF ~Given(tool_input, "command") \/ tool_input.command = ""
    THEN Returned(self, Error(<<" No command specified">>))
    ELSE IF tool_input.command \notin Commands
    THEN Returned(self, Error(<<" Unknown command '", tool_input.command, "'">>))
    ELSE Catch(Then(handler(self, t, tool_input),
                    LAMBDA h : Then(reorganize_if_needed(h.self, t),
                                    LAMBDA r : Returned(r.self, h.result))))

----------------------------------------------------------------------------
(* The baseline handlers: MemoryToolHandler (src/memory_tool.py) and       *)
(* ClaudeOfficialMemory (src/claude_official/memory_handler.py), and the   *)
(* cache-plus-index variant ReverseEngineeredMemory                        *)
(* (src/reverse_engineered/memory_handler.py).  Each keeps its files in a  *)
(* directory tree of its own below base_path.                              *)
(*                                                                         *)
(* A disk is the tree as pathlib sees it: the set of its directories and   *)
(* the text of each regular file, both addressed by the absolute path as a *)
(* sequence of names (<<>> is "/").  There are no symbolic links, so       *)
(* Path.resolve() is the lexical normalisation.  A path of the tool is a   *)
(* sequence of the tokens "/memories", "/" and names.  The text after the  *)
(* errno text of an OSError (the quoted absolute path) is left out.        *)

\* Path(base_path).resolve() of every handler
BasePath == <<"srv", "memories">>

\* a file next to the base directory, which no command may touch
SecretPath == <<"srv", "secret">>

Secret == <<"S">>

EmptyDisk ==
    [dirs |-> {<<>>, <<"srv">>, BasePath}, files |-> (SecretPath :> Secret)]

IsPrefix(p, q) == Len(p) <= Len(q) /\ SubSeq(q, 1, Len(p)) = p

Parent(p) == IF p = <<>> THEN <<>> ELSE SubSeq(p, 1, Len(p) - 1)

Prefixes(p) == {SubSeq(p, 1, n) : n \in 0..Len(p)}

PathExists(disk, p) == p \in disk.dirs \/ p \in DOMAIN disk.files

IsDir(disk, p) == p \in disk.dirs

IsFile(disk, p) == p \in DOMAIN disk.files

\* a proper ancestor of p is a regular file
BelowFile(disk, p) == \E q \in Prefixes(p) \ {p} : IsFile(disk, q)

\* the names of the tool path after "/" is taken as the separator
Names(path) == SelectSeq(path, LAMBDA tok : tok # "/")

\* Path.resolve() without symbolic links: "." is dropped and ".." takes the
\* last name off, staying at "/" when there is none
RECURSIVE Normalize(_, _)
Normalize(start, names) ==
    IF names = <<>> THEN start
    ELSE LET name == Head(names)
         IN Normalize(CASE name = ".." -> Parent(start)
                        [] name = "." -> start
                        [] OTHER -> Append(start, name),
                      Tail(names))

\* (self.base_path / path).resolve(): a path that starts with "/" replaces
\* the base
Joined(path) ==
    IF StartsWith(path, <<"/">>) THEN Normalize(<<>>, Names(path))
    ELSE Normalize(BasePath, Names(path))

\* MemoryToolHandler._resolve_path without the relative_to check
resolve_path_unchecked(path) ==
    LET p1 == IF StartsWith(path, Root) THEN Drop(path, 1) ELSE path
        p2 == IF StartsWith(p1, <<"/">>) THEN Drop(p1, 1) ELSE p1
    IN [ok |-> TRUE, full |-> Joined(p2), path |-> p2]

\* MemoryToolHandler._resolve_path, ClaudeOfficialMemory._validate_path and
\* ReverseEngineeredMemory._validate_path: ok is FALSE when ValueError is raised
resolve_path(path) ==
    LET p1 == IF StartsWith(path, Root) THEN Drop(path, 1) ELSE path
        p2 == IF StartsWith(p1, <<"/">>) THEN Drop(p1, 1) ELSE p1
    IN [ok |-> IsPrefix(BasePath, Joined(p2)), full |-> Joined(p2), path |-> p2]

PathTraversal(path) == <<" Path traversal detected: ">> \o path

\* the result of a handler: the disk it leaves, the exception it raised ("" for
\* none) and the string returned or the message of the exception
Ok(disk, result) == [disk |-> disk, exc |-> "", result |-> result]

Fail(disk, exc, msg) == [disk |-> disk, exc |-> exc, result |-> msg]

ErrnoText(exc) ==
    CASE exc = "FileNotFoundError" -> <<" [Errno 2] No such file or directory">>
      [] exc = "FileExistsError" -> <<" [Errno 17] File exists">>
      [] exc = "NotADirectoryError" -> <<" [Errno 20] Not a directory">>
      [] exc = "IsADirectoryError" -> IsADirectoryError
      [] exc = "OSError" -> InvalidArgumentError

\* Path.mkdir(parents=True, exist_ok=True): the exception it raises
MkdirError(disk, p) ==
    CASE IsDir(disk, p) -> ""
      [] IsFile(disk, p) -> "FileExistsError"
      [] BelowFile(disk, p) -> "NotADirectoryError"
      [] OTHER -> ""

Mkdir(disk, p) == [disk EXCEPT !.dirs = @ \cup Prefixes(p)]

\* Path.write_text: the exception it raises
WriteError(disk, p) ==
    CASE IsDir(disk, p) -> "IsADirectoryError"
      [] BelowFile(disk, p) -> "NotADirectoryError"
      [] ~IsDir(disk, Parent(p)) -> "FileNotFoundError"
      [] OTHER -> ""

DiskWrite(disk, p, text) ==
    [disk EXCEPT !.files = [q \in DOMAIN @ \cup {p} |-> IF q = p THEN text ELSE @[q]]]

\* what the text mode of read_text makes of the bytes write_text wrote: "\r\n"
\* and "\r" are read as "\n"
RECURSIVE Newlines(_)
Newlines(text) ==
    IF text = <<>> THEN <<>>
    ELSE IF Head(text) = "\r"
    THEN <<"\n">> \o Newlines(IF Len(text) > 1 /\ text[2] = "\n" THEN Drop(text, 2)
                                                                   ELSE Tail(text))
    ELSE <<Head(text)>> \o Newlines(Tail(text))

DiskRead(disk, p) == Newlines(disk.files[p])

\* Path.unlink of a regular file
DiskUnlink(disk, p) == [disk EXCEPT !.files = [q \in DOMAIN @ \ {p} |-> @[q]]]

\* shutil.rmtree
Rmtree(disk, p) ==
    [dirs |-> {q \in disk.dirs : ~IsPrefix(p, q)},
     files |-> [q \in {f \in DOMAIN disk.files : ~IsPrefix(p, f)} |-> disk.files[q]]]

\* Path.rename to a path that does not exist and whose parent is a directory:
\* a directory cannot be moved below itself
RenameError(disk, old, new) ==
    IF IsDir(disk, old) /\ IsPrefix(old, new) THEN "OSError" ELSE ""

Moved(old, new, q) == new \o Drop(q, Len(old))

DiskRename(disk, old, new) ==
    LET dirs == {q \in disk.dirs : IsPrefix(old, q)}
        fs == {q \in DOMAIN disk.files : IsPrefix(old, q)}
    IN [dirs |-> (disk.dirs \ dirs) \cup {Moved(old, new, q) : q \in dirs},
        files |-> [q \in (DOMAIN disk.files \ fs) \cup {Moved(old, new, f) : f \in fs} |->
                      IF IsPrefix(new, q) THEN disk.files[old \o Drop(q, Len(new))]
                      ELSE disk.files[q]]]

\* the names that sorted(iterdir()) can meet, in sorted order
SortedNames ==
    <<"a", "b", "c", "d", "e", "f", "g", "h", "i", "j", "k", "memories", "secret", "srv">>

\* sorted(resolved_path.iterdir()) as names
Children(disk, p) ==
    SelectSeq(SortedNames, LAMBDA name : PathExists(disk, Append(p, name)))

\* s.split("\n"): the pieces between the "\n", one piece for a text without one
RECURSIVE SplitNewline(_)
SplitNewline(s) ==
    LET j == FindFrom(s, <<"\n">>, 1)
    IN IF j = 0 THEN <<s>>
       ELSE <<SubSeq(s, 1, j - 1)>> \o SplitNewline(Drop(s, j))

\* s.rstrip("\n")
RECURSIVE RStripNewline(_)
RStripNewline(s) ==
    IF s # <<>> /\ s[Len(s)] = "\n" THEN RStripNewline(SubSeq(s, 1, Len(s) - 1)) ELSE s

\* lines.insert(i, x) for each line x of xs in turn, from index i on
InsertAll(lines, i, xs) == SubSeq(lines, 1, i) \o xs \o SubSeq(lines, i + 1, Len(lines))

Min(a, b) == IF a < b THEN a ELSE b

Max(a, b) == IF a > b THEN a ELSE b

\* input_data.get(field) is None or empty
Missing(input_data, field) == ~Given(input_data, field) \/ input_data[field] = <<>>

\* the lines of a directory listing of MemoryToolHandler._handle_view; "[dir] "
\* and "[file] " stand for the folder and the page pictographs and a space
RECURSIVE ToolItems(_, _, _)
ToolItems(disk, p, names) ==
    IF names = <<>> THEN <<>>
    ELSE <<"\n", "- ", IF IsDir(disk, Append(p, Head(names))) THEN "[dir] " ELSE "[file] ",
           Head(names)>> \o ToolItems(disk, p, Tail(names))

\* MemoryToolHandler._handle_view
tool_handle_view(disk, input_data) ==
    LET path == IF Given(input_data, "path") THEN input_data.path ELSE Root
        r == resolve_path(path)
    IN IF ~r.ok THEN Fail(disk, "ValueError", PathTraversal(r.path))
       ELSE IF ~PathExists(disk, r.full)
       THEN IF r.full = BasePath
            THEN Ok(disk, <<"Directory: ", "/memories", "\n", "(empty)">>)
            ELSE Ok(disk, Error(<<" Path does not exist: ">> \o path))
       ELSE IF IsDir(disk, r.full)
       THEN IF Children(disk, r.full) = <<>>
            THEN Ok(disk, <<"Directory: ">> \o path \o <<"\n", "(empty)">>)
            ELSE Ok(disk, <<"Directory: ">> \o path
                          \o ToolItems(disk, r.full, Children(disk, r.full)))
       ELSE Ok(disk, DiskRead(disk, r.full))

\* MemoryToolHandler._handle_create
tool_handle_create(disk, input_data) ==
    LET file_text == IF Given(input_data, "file_text") THEN input_data.file_text ELSE <<>>
    IN IF Missing(input_data, "path")
       THEN Ok(disk, Error(<<" 'path' is required for create command">>))
       ELSE LET path == input_data.path
                r == resolve_path(path)
                made == Mkdir(disk, Parent(r.full))
            IN IF ~r.ok THEN Fail(disk, "ValueError", PathTraversal(r.path))
               ELSE IF MkdirError(disk, Parent(r.full)) # ""
               THEN Fail(disk, MkdirError(disk, Parent(r.full)),
                         ErrnoText(MkdirError(disk, Parent(r.full))))
               ELSE IF WriteError(made, r.full) # ""
               THEN Fail(made, WriteError(made, r.full), ErrnoText(WriteError(made, r.full)))
               ELSE Ok(DiskWrite(made, r.full, file_text), <<"Successfully created: ">> \o path)

\* MemoryToolHandler._handle_str_replace
tool_handle_str_replace(disk, input_data) ==
    IF Missing(input_data, "path") \/ ~Given(input_data, "old_str")
       \/ ~Given(input_data, "new_str")
    THEN Ok(disk, Error(<<" 'path', 'old_str', and 'new_str' are required">>))
    ELSE LET path == input_data.path
             old_str == input_data.old_str
             new_str == input_data.new_str
             r == resolve_path(path)
         IN IF ~r.ok THEN Fail(disk, "ValueError", PathTraversal(r.path))
            ELSE IF ~PathExists(disk, r.full)
            THEN Ok(disk, Error(<<" File does not exist: ">> \o path))
            ELSE IF IsDir(disk, r.full)
            THEN Fail(disk, "IsADirectoryError", IsADirectoryError)
            ELSE LET content == DiskRead(disk, r.full)
                 IN IF ~Contains(content, old_str)
                    THEN Ok(disk, Error(<<" '">> \o old_str \o <<"' not found in ">> \o path))
                    ELSE Ok(DiskWrite(disk, r.full, Replace(content, old_str, new_str)),
                            <<"Successfully replaced ", ToString(Count(content, old_str)),
                              " occurrence(s) in ">> \o path)

\* MemoryToolHandler._handle_insert
tool_handle_insert(disk, input_data) ==
    LET insert_text == IF Given(input_data, "insert_text") THEN input_data.insert_text
                       ELSE <<>>
    IN IF Missing(input_data, "path") \/ ~Given(input_data, "insert_line")
       THEN Ok(disk, Error(<<" 'path' and 'insert_line' are required">>))
       ELSE LET path == input_data.path
                insert_line == input_data.insert_line
                r == resolve_path(path)
            IN IF ~r.ok THEN Fail(disk, "ValueError", PathTraversal(r.path))
               ELSE IF ~PathExists(disk, r.full)
               THEN Ok(disk, Error(<<" File does not exist: ">> \o path))
               ELSE IF IsDir(disk, r.full)
               THEN Fail(disk, "IsADirectoryError", IsADirectoryError)
               ELSE LET lines == SplitNewline(DiskRead(disk, r.full))
                        insert_idx == Max(0, Min(insert_line - 1, Len(lines)))
                        insert_lines == SplitNewline(RStripNewline(insert_text))
                    IN Ok(DiskWrite(disk, r.full,
                                    JoinLines(InsertAll(lines, insert_idx, insert_lines))),
                          <<"Successfully inserted ", ToString(Len(insert_lines)),
                            " line(s) at line ", ToString(insert_line), " in ">> \o path)

\* MemoryToolHandler._handle_delete
tool_handle_delete(disk, input_data) ==
    IF Missing(input_data, "path")
    THEN Ok(disk, Error(<<" 'path' is required for delete command">>))
    ELSE LET path == input_data.path
             r == resolve_path(path)
         IN IF ~r.ok THEN Fail(disk, "ValueError", PathTraversal(r.path))
            ELSE IF ~PathExists(disk, r.full)
            THEN Ok(disk, Error(<<" Path does not exist: ">> \o path))
            ELSE IF r.full = BasePath
            THEN Ok(disk, Error(<<" Cannot delete the root memories directory">>))
            ELSE IF IsDir(disk, r.full)
            THEN Ok(Rmtree(disk, r.full), <<"Successfully deleted directory: ">> \o path)
            ELSE Ok(DiskUnlink(disk, r.full), <<"Successfully deleted file: ">> \o path)

\* MemoryToolHandler._handle_rename
tool_handle_rename(disk, input_data) ==
    IF Missing(input_data, "old_path") \/ Missing(input_data, "new_path")
    THEN Ok(disk, Error(<<" 'old_path' and 'new_path' are required">>))
    ELSE LET old_path == input_data.old_path
             new_path == input_data.new_path
             old == resolve_path(old_path)
             new == resolve_path(new_path)
             made == Mkdir(disk, Parent(new.full))
         IN IF ~old.ok THEN Fail(disk, "ValueError", PathTraversal(old.path))
            ELSE IF ~new.ok THEN Fail(disk, "ValueError", PathTraversal(new.path))
            ELSE IF ~PathExists(disk, old.full)
            THEN Ok(disk, Error(<<" Source path does not exist: ">> \o old_path))
            ELSE IF PathExists(disk, new.full)
            THEN Ok(disk, Error(<<" Destination already exists: ">> \o new_path))
            ELSE IF MkdirError(disk, Parent(new.full)) # ""
            THEN Fail(disk, MkdirError(disk, Parent(new.full)),
                      ErrnoText(MkdirError(disk, Parent(new.full))))
            ELSE IF RenameError(made, old.full, new.full) # ""
            THEN Fail(made, "OSError", InvalidArgumentError)
            ELSE Ok(DiskRename(made, old.full, new.full),
                    <<"Successfully renamed ">> \o old_path \o <<" to ">> \o new_path)

\* MemoryToolHandler.handle_tool_call: the except clauses turn an exception
\* into a string
tool_handle_tool_call(disk, tool_input) ==
    IF ~Given(tool_input, "command")
    THEN Ok(disk, Error(<<" Unknown command '", "None", "'">>))
    ELSE IF tool_input.command \notin Commands
    THEN Ok(disk, Error(<<" Unknown command '", tool_input.command, "'">>))
    ELSE LET h == CASE tool_input.command = "view" -> tool_handle_view(disk, tool_input)
                    [] tool_input.command = "create" -> tool_handle_create(disk, tool_input)
                    [] tool_input.command = "str_replace" ->
                           tool_handle_str_replace(disk, tool_input)
                    [] tool_input.command = "insert" -> tool_handle_insert(disk, tool_input)
                    [] tool_input.command = "delete" -> tool_handle_delete(disk, tool_input)
                    [] tool_input.command = "rename" -> tool_handle_rename(disk, tool_input)
         IN CASE h.exc = "" -> h
              [] h.exc = "ValueError" -> [h EXCEPT !.result = Error(@)]
              [] h.exc = "FileNotFoundError" ->
                     [h EXCEPT !.result = Error(<<" File not found -">> \o @)]
              [] OTHER -> [h EXCEPT !.result = Error(<<" ", h.exc, " -">> \o @)]

\* s[:n] for a text whose tokens end at character n or before it, or that has
\* no more than n characters
RECURSIVE Take(_, _)
Take(s, n) ==
    IF s = <<>> \/ CharLen(Head(s)) > n THEN <<>>
    ELSE <<Head(s)>> \o Take(Tail(s), n - CharLen(Head(s)))

\* the lines of a directory listing of ClaudeOfficialMemory.view
RECURSIVE OfficialItems(_, _, _)
OfficialItems(disk, p, names) ==
    IF names = <<>> THEN <<>>
    ELSE (IF IsDir(disk, Append(p, Head(names)))
          THEN <<"\n", "- ", "[dir] ", Head(names)>>
          ELSE <<"\n", "- ", "[file] ", Head(names), " (",
                 ToString(Utf8Len(disk.files[Append(p, Head(names))])), " bytes)">>)
         \o OfficialItems(disk, p, Tail(names))

\* ClaudeOfficialMemory.view
official_view(disk, path) ==
    LET r == resolve_path(path)
    IN IF ~r.ok THEN Fail(disk, "ValueError", PathTraversal(r.path))
       ELSE IF ~PathExists(disk, r.full)
       THEN IF r.full = BasePath
            THEN Ok(disk, <<"Directory: ", "/memories", "\n", "(empty)">>)
            ELSE Ok(disk, Error(<<" Path does not exist: ">> \o path))
       ELSE IF IsDir(disk, r.full)
       THEN IF Children(disk, r.full) = <<>>
            THEN Ok(disk, <<"Directory: ">> \o path \o <<"\n", "(empty)">>)
            ELSE Ok(disk, <<"Directory: ">> \o path
                          \o OfficialItems(disk, r.full, Children(disk, r.full)))
       ELSE Ok(disk, DiskRead(disk, r.full))

\* ClaudeOfficialMemory.create
official_create(disk, path, file_text) ==
    LET r == resolve_path(path)
        made == Mkdir(disk, Parent(r.full))
    IN IF ~r.ok THEN Fail(disk, "ValueError", PathTraversal(r.path))
       ELSE IF MkdirError(disk, Parent(r.full)) # ""
       THEN Fail(disk, MkdirError(disk, Parent(r.full)),
                 ErrnoText(MkdirError(disk, Parent(r.full))))
       ELSE IF WriteError(made, r.full) # ""
       THEN Fail(made, WriteError(made, r.full), ErrnoText(WriteError(made, r.full)))
       ELSE Ok(DiskWrite(made, r.full, file_text), <<"Created file: ">> \o path)

\* ClaudeOfficialMemory.str_replace
official_str_replace(disk, path, old_str, new_str) ==
    LET r == resolve_path(path)
    IN IF ~r.ok THEN Fail(disk, "ValueError", PathTraversal(r.path))
       ELSE IF ~PathExists(disk, r.full)
       THEN Ok(disk, Error(<<" File does not exist: ">> \o path))
       ELSE IF IsDir(disk, r.full)
       THEN Ok(disk, Error(<<" Cannot replace text in directory: ">> \o path))
       ELSE LET content == DiskRead(disk, r.full)
            IN IF ~Contains(content, old_str)
               THEN Ok(disk, Error(<<" String not found in file: ">> \o Take(old_str, 50)
                                   \o <<"...">>))
               ELSE Ok(DiskWrite(disk, r.full, Replace(content, old_str, new_str)),
                       <<"Replaced ", ToString(Count(content, old_str)),
                         " occurrence(s) in ">> \o path)

\* ClaudeOfficialMemory.insert
official_insert(disk, path, insert_line, insert_text) ==
    LET r == resolve_path(path)
    IN IF ~r.ok THEN Fail(disk, "ValueError", PathTraversal(r.path))
       ELSE IF ~PathExists(disk, r.full)
       THEN IF insert_line = 0
            THEN IF WriteError(disk, r.full) # ""
                 THEN Fail(disk, WriteError(disk, r.full), ErrnoText(WriteError(disk, r.full)))
                 ELSE Ok(DiskWrite(disk, r.full, insert_text),
                         <<"Created new file with content at ">> \o path)
            ELSE Ok(disk, Error(<<" Cannot insert at line ", ToString(insert_line),
                                  " in non-existent file">>))
       ELSE IF IsDir(disk, r.full)
       THEN Ok(disk, Error(<<" Cannot insert text into directory: ">> \o path))
       ELSE IF insert_line < 0
       THEN Ok(disk, Error(<<" Line number must be non-negative">>))
       ELSE LET lines == ListInsert(PadLines(SplitLines(DiskRead(disk, r.full)), insert_line),
                                    insert_line, insert_text)
            IN Ok(DiskWrite(disk, r.full, JoinLines(lines)),
                  <<"Inserted text at line ", ToString(insert_line), " in ">> \o path)

\* ClaudeOfficialMemory.delete
official_delete(disk, path) ==
    LET r == resolve_path(path)
    IN IF ~r.ok THEN Fail(disk, "ValueError", PathTraversal(r.path))
       ELSE IF ~PathExists(disk, r.full)
       THEN Ok(disk, Error(<<" Path does not exist: ">> \o path))
       ELSE IF IsDir(disk, r.full)
       THEN Ok(Rmtree(disk, r.full), <<"Deleted directory: ">> \o path)
       ELSE Ok(DiskUnlink(disk, r.full), <<"Deleted file: ">> \o path)

\* ClaudeOfficialMemory.rename
official_rename(disk, old_path, new_path) ==
    LET old == resolve_path(old_path)
        new == resolve_path(new_path)
        made == Mkdir(disk, Parent(new.full))
    IN IF ~old.ok THEN Fail(disk, "ValueError", PathTraversal(old.path))
       ELSE IF ~new.ok THEN Fail(disk, "ValueError", PathTraversal(new.path))
       ELSE IF ~PathExists(disk, old.full)
       THEN Ok(disk, Error(<<" Source path does not exist: ">> \o old_path))
       ELSE IF PathExists(disk, new.full)
       THEN Ok(disk, Error(<<" Destination already exists: ">> \o new_path))
       ELSE IF MkdirError(disk, Parent(new.full)) # ""
       THEN Fail(disk, MkdirError(disk, Parent(new.full)),
                 ErrnoText(MkdirError(disk, Parent(new.full))))
       ELSE IF RenameError(made, old.full, new.full) # ""
       THEN Fail(made, "OSError", InvalidArgumentError)
       ELSE Ok(DiskRename(made, old.full, new.full),
               <<"Renamed ">> \o old_path \o <<" to ">> \o new_path)

\* ClaudeOfficialMemory._handle_view, _handle_create, _handle_str_replace,
\* _handle_insert, _handle_delete and _handle_rename
official_handler(disk, input_data) ==
    CASE input_data.command = "view" ->
             official_view(disk, IF Given(input_data, "path") THEN input_data.path ELSE Root)
      [] input_data.command = "create" ->
             IF Missing(input_data, "path") THEN Ok(disk, Error(<<" No path specified">>))
             ELSE official_create(disk, input_data.path,
                                  IF Given(input_data, "file_text") THEN input_data.file_text
                                  ELSE <<>>)
      [] input_data.command = "str_replace" ->
             IF Missing(input_data, "path") \/ ~Given(input_data, "old_str")
                \/ ~Given(input_data, "new_str")
             THEN Ok(disk, Error(<<" Missing required parameters for str_replace">>))
             ELSE official_str_replace(disk, input_data.path, input_data.old_str,
                                       input_data.new_str)
      [] input_data.command = "insert" ->
             IF Missing(input_data, "path") \/ ~Given(input_data, "insert_line")
             THEN Ok(disk, Error(<<" Missing required parameters for insert">>))
             ELSE official_insert(disk, input_data.path, input_data.insert_line,
                                  IF Given(input_data, "insert_text")
                                  THEN input_data.insert_text ELSE <<>>)
      [] input_data.command = "delete" ->
             IF Missing(input_data, "path") THEN Ok(disk, Error(<<" No path specified">>))
             ELSE official_delete(disk, input_data.path)
      [] input_data.command = "rename" ->
             IF Missing(input_data, "old_path") \/ Missing(input_data, "new_path")
             THEN Ok(disk, Error(<<" Both old_path and new_path required">>))
             ELSE official_rename(disk, input_data.old_path, input_data.new_path)

\* ClaudeOfficialMemory.handle_tool_call
official_handle_tool_call(disk, tool_input) ==
    IF ~Given(tool_input, "command") \/ tool_input.command = ""
    THEN Ok(disk, Error(<<" No command specified">>))
    ELSE IF tool_input.command \notin Commands
    THEN Ok(disk, Error(<<" Unknown command '", tool_input.command, "'">>))
    ELSE LET h == official_handler(disk, tool_input)
         IN IF h.exc = "" THEN h ELSE [h EXCEPT !.result = Error(@)]

\* ReverseEngineeredMemory: the disk, self.cache (an OrderedDict, oldest entry
\* first) and self.index['files'] with the size of each entry.
\* self.index['directories'] is filled by _rebuild_index only, which runs on
\* the empty base directory, so it stays empty and is left out.
NewReverse == [disk |-> EmptyDisk, cache |-> <<>>, files |-> <<>>]

CacheSize == 10

\* str(resolved_path.relative_to(self.base_path))
RECURSIVE JoinNames(_)
JoinNames(names) ==
    IF names = <<>> THEN <<".">>
    ELSE IF Len(names) = 1 THEN names
    ELSE <<Head(names), "/">> \o JoinNames(Tail(names))

RelPath(full) == JoinNames(Drop(full, Len(BasePath)))

\* path.replace("/memories/", "") for a path in which "/memories/" occurs at
\* the start only
IndexKey(path) == IF StartsWith(path, Root \o <<"/">>) THEN Drop(path, 2) ELSE path

\* ReverseEngineeredMemory._add_to_cache
add_to_cache(self, path, content) ==
    LET kept == IF Len(self.cache) >= CacheSize THEN Tail(self.cache) ELSE self.cache
    IN [self EXCEPT !.cache = Put(kept, path, content)]

\* ReverseEngineeredMemory._get_from_cache: the entry becomes the newest
get_from_cache(self, path) ==
    [self EXCEPT !.cache = Append(Del(@, path), [key |-> path, block |-> Get(@, path)])]

\* the result of a method of ReverseEngineeredMemory
RevOk(self, result) == [self |-> self, exc |-> "", result |-> result]

RevFail(self, exc, msg) == [self |-> self, exc |-> exc, result |-> msg]

\* s.lstrip("/"); the token "/memories" loses its slash
RECURSIVE LStripSlash(_)
LStripSlash(s) ==
    IF s = <<>> THEN s
    ELSE IF Head(s) = "/" THEN LStripSlash(Tail(s))
    ELSE IF Head(s) = Root[1] THEN <<"memories">> \o Tail(s)
    ELSE s

\* file_path[len(rel_dir):].lstrip("/")
Remaining(key, rel_dir) == LStripSlash(Drop(key, Len(rel_dir)))

\* the entries of the index that the listing of the directory rel_dir shows:
\* those under it with no "/" in what remains of their key
Listed(self, rel_dir) ==
    {key \in DOMAIN self.files :
        /\ rel_dir = <<>> \/ StartsWith(key, rel_dir \o <<"/">>)
        /\ \A i \in 1..Len(Remaining(key, rel_dir)) :
               Remaining(key, rel_dir)[i] \notin {"/", Root[1]}}

\* the decimal digits of n
RECURSIVE Digits(_)
Digits(n) == IF n < 10 THEN <<n>> ELSE Append(Digits(n \div 10), n % 10)

\* str(a) + " bytes)" < str(b) + " bytes)" as strings: the space sorts before
\* every digit
RECURSIVE DigitsBefore(_, _)
DigitsBefore(a, b) ==
    IF a = <<>> THEN b # <<>>
    ELSE IF b = <<>> THEN FALSE
    ELSE IF Head(a) # Head(b) THEN Head(a) < Head(b)
    ELSE DigitsBefore(Tail(a), Tail(b))

\* what can remain of a key, in the order of the strings that start with it
\* and go on with " ("
ListedNames == <<<<>>, <<".">>, <<"..">>>> \o [i \in 1..Len(SortedNames) |-> <<SortedNames[i]>>]

\* sorted(items) for the entries whose remainders are in names
RECURSIVE ReverseItems(_, _, _)
ReverseItems(self, rel_dir, names) ==
    IF names = <<>> THEN <<>>
    ELSE LET keys == {key \in Listed(self, rel_dir) : Remaining(key, rel_dir) = Head(names)}
             RECURSIVE Lines(_)
             Lines(ks) ==
                 IF ks = {} THEN <<>>
                 ELSE LET k == CHOOSE x \in ks : \A y \in ks :
                                   ~DigitsBefore(Digits(self.files[y]), Digits(self.files[x]))
                      IN <<"\n", "[file] ">> \o Head(names)
                         \o <<" (", ToString(self.files[k]), " bytes)">>
                         \o Lines(ks \ {k})
         IN Lines(keys) \o ReverseItems(self, rel_dir, Tail(names))

\* ReverseEngineeredMemory.view
reverse_view(self, path) ==
    LET r == resolve_path(path)
        disk == self.disk
        rel_path == RelPath(r.full)
    IN IF ~r.ok THEN RevFail(self, "ValueError", PathTraversal(r.path))
       ELSE IF IsFile(disk, r.full) /\ Has(self.cache, rel_path)
       THEN RevOk(get_from_cache(self, rel_path), Get(self.cache, rel_path))
       ELSE IF r.full = BasePath \/ IsDir(disk, r.full)
       THEN LET rel_dir == IF r.full = BasePath THEN <<>> ELSE rel_path
            IN IF Listed(self, rel_dir) = {}
               THEN RevOk(self, <<"Directory: ">> \o path \o <<"\n", "(empty)">>)
               ELSE RevOk(self, <<"Directory: ">> \o path
                                \o ReverseItems(self, rel_dir, ListedNames))
       ELSE IF PathExists(disk, r.full)
       THEN RevOk(add_to_cache(self, rel_path, DiskRead(disk, r.full)), DiskRead(disk, r.full))
       ELSE RevOk(self, Error(<<" Path does not exist: ">> \o path))

\* ReverseEngineeredMemory.create
reverse_create(self, path, file_text) ==
    LET r == resolve_path(path)
        disk == self.disk
        made == Mkdir(disk, Parent(r.full))
    IN IF ~r.ok THEN RevFail(self, "ValueError", PathTraversal(r.path))
       ELSE IF MkdirError(disk, Parent(r.full)) # ""
       THEN RevFail(self, MkdirError(disk, Parent(r.full)),
                    ErrnoText(MkdirError(disk, Parent(r.full))))
       ELSE IF WriteError(made, r.full) # ""
       THEN RevFail([self EXCEPT !.disk = made], WriteError(made, r.full),
                    ErrnoText(WriteError(made, r.full)))
       ELSE RevOk(add_to_cache([self EXCEPT !.disk = DiskWrite(made, r.full, file_text)],
                               RelPath(r.full), file_text),
                  <<"Created file: ">> \o path)

\* ReverseEngineeredMemory.str_replace
reverse_str_replace(self, path, old_str, new_str) ==
    LET r == resolve_path(path)
        disk == self.disk
    IN IF ~r.ok THEN RevFail(self, "ValueError", PathTraversal(r.path))
       ELSE IF ~PathExists(disk, r.full)
       THEN RevOk(self, Error(<<" File does not exist: ">> \o path))
       ELSE IF IsDir(disk, r.full)
       THEN RevFail(self, "IsADirectoryError", IsADirectoryError)
       ELSE LET content == DiskRead(disk, r.full)
                new_content == Replace(content, old_str, new_str)
            IN IF ~Contains(content, old_str)
               THEN RevOk(self, Error(<<" String not found in file">>))
               ELSE RevOk(add_to_cache([self EXCEPT !.disk = DiskWrite(disk, r.full, new_content)],
                                       RelPath(r.full), new_content),
                          <<"Replaced ", ToString(Count(content, old_str)),
                            " occurrence(s) in ">> \o path)

\* ReverseEngineeredMemory.insert
reverse_insert(self, path, insert_line, insert_text) ==
    LET r == resolve_path(path)
        disk == self.disk
    IN IF ~r.ok THEN RevFail(self, "ValueError", PathTraversal(r.path))
       ELSE IF ~PathExists(disk, r.full)
       THEN IF insert_line = 0
            THEN IF WriteError(disk, r.full) # ""
                 THEN RevFail(self, WriteError(disk, r.full),
                              ErrnoText(WriteError(disk, r.full)))
                 ELSE RevOk(add_to_cache([self EXCEPT
                                             !.disk = DiskWrite(disk, r.full, insert_text)],
                                         RelPath(r.full), insert_text),
                            <<"Created new file with content at ">> \o path)
            ELSE RevOk(self, Error(<<" Cannot insert at line ", ToString(insert_line),
                                     " in non-existent file">>))
       ELSE IF IsDir(disk, r.full)
       THEN RevFail(self, "IsADirectoryError", IsADirectoryError)
       ELSE IF insert_line < 0
       THEN RevOk(self, Error(<<" Line number must be non-negative">>))
       ELSE LET lines == ListInsert(PadLines(SplitLines(DiskRead(disk, r.full)), insert_line),
                                    insert_line, insert_text)
                new_content == JoinLines(lines)
            IN RevOk(add_to_cache([self EXCEPT !.disk = DiskWrite(disk, r.full, new_content)],
                                  RelPath(r.full), new_content),
                     <<"Inserted text at line ", ToString(insert_line), " in ">> \o path)

\* ReverseEngineeredMemory.delete
reverse_delete(self, path) ==
    LET r == resolve_path(path)
        disk == self.disk
        popped == [self EXCEPT !.cache = Del(@, RelPath(r.full))]
    IN IF ~r.ok THEN RevFail(self, "ValueError", PathTraversal(r.path))
       ELSE IF ~PathExists(disk, r.full)
       THEN RevOk(self, Error(<<" Path does not exist: ">> \o path))
       ELSE IF IsDir(disk, r.full)
       THEN RevOk([popped EXCEPT !.disk = Rmtree(disk, r.full)],
                  <<"Deleted directory: ">> \o path)
       ELSE RevOk([popped EXCEPT !.disk = DiskUnlink(disk, r.full)],
                  <<"Deleted file: ">> \o path)

\* cache[new] = cache.pop(old), when old is a key of the cache
MoveEntry(cache, old, new) ==
    IF Has(cache, old) THEN Put(Del(cache, old), new, Get(cache, old)) ELSE cache

\* ReverseEngineeredMemory.rename
reverse_rename(self, old_path, new_path) ==
    LET old == resolve_path(old_path)
        new == resolve_path(new_path)
        disk == self.disk
        made == Mkdir(disk, Parent(new.full))
    IN IF ~old.ok THEN RevFail(self, "ValueError", PathTraversal(old.path))
       ELSE IF ~new.ok THEN RevFail(self, "ValueError", PathTraversal(new.path))
       ELSE IF ~PathExists(disk, old.full)
       THEN RevOk(self, Error(<<" Source path does not exist: ">> \o old_path))
       ELSE IF PathExists(disk, new.full)
       THEN RevOk(self, Error(<<" Destination already exists: ">> \o new_path))
       ELSE IF MkdirError(disk, Parent(new.full)) # ""
       THEN RevFail(self, MkdirError(disk, Parent(new.full)),
                    ErrnoText(MkdirError(disk, Parent(new.full))))
       ELSE IF RenameError(made, old.full, new.full) # ""
       THEN RevFail([self EXCEPT !.disk = made], "OSError", InvalidArgumentError)
       ELSE RevOk([self EXCEPT !.disk = DiskRename(made, old.full, new.full),
                               !.cache = MoveEntry(@, RelPath(old.full), RelPath(new.full))],
                  <<"Renamed ">> \o old_path \o <<" to ">> \o new_path)

\* ReverseEngineeredMemory._handle_view, _handle_create, _handle_str_replace,
\* _handle_insert, _handle_delete and _handle_rename
reverse_handler(self, input_data) ==
    CASE input_data.command = "view" ->
             reverse_view(self, IF Given(input_data, "path") THEN input_data.path ELSE Root)
      [] input_data.command = "create" ->
             IF Missing(input_data, "path") THEN RevOk(self, Error(<<" No path specified">>))
             ELSE reverse_create(self, input_data.path,
                                 IF Given(input_data, "file_text") THEN input_data.file_text
                                 ELSE <<>>)
      [] input_data.command = "str_replace" ->
             IF Missing(input_data, "path") \/ ~Given(input_data, "old_str")
                \/ ~Given(input_data, "new_str")
             THEN RevOk(self, Error(<<" Missing required parameters">>))
             ELSE reverse_str_replace(self, input_data.path, input_data.old_str,
                                      input_data.new_str)
      [] input_data.command = "insert" ->
             IF Missing(input_data, "path") \/ ~Given(input_data, "insert_line")
             THEN RevOk(self, Error(<<" Missing required parameters">>))
             ELSE reverse_insert(self, input_data.path, input_data.insert_line,
                                 IF Given(input_data, "insert_text")
                                 THEN input_data.insert_text ELSE <<>>)
      [] input_data.command = "delete" ->
             IF Missing(input_data, "path") THEN RevOk(self, Error(<<" No path specified">>))
             ELSE reverse_delete(self, input_data.path)
      [] input_data.command = "rename" ->
             IF Missing(input_data, "old_path") \/ Missing(input_data, "new_path")
             THEN RevOk(self, Error(<<" Both paths required">>))
             ELSE reverse_rename(self, input_data.old_path, input_data.new_path)

\* tool_input.get(field, "")
GetOrEmpty(tool_input, field) == IF Given(tool_input, field) THEN tool_input[field] ELSE <<>>

MapPut(f, k, v) == [x \in DOMAIN f \cup {k} |-> IF x = k THEN v ELSE f[x]]

MapPop(f, k) == [x \in DOMAIN f \ {k} |-> f[x]]

\* ReverseEngineeredMemory._update_index_partial, which runs after create,
\* delete and rename whatever string the handler returned
update_index_partial(self, tool_input) ==
    CASE tool_input.command = "create" ->
             [self EXCEPT !.files = MapPut(@, IndexKey(GetOrEmpty(tool_input, "path")),
                                           PyLen(GetOrEmpty(tool_input, "file_text")))]
      [] tool_input.command = "delete" ->
             [self EXCEPT !.files = MapPop(@, IndexKey(GetOrEmpty(tool_input, "path"))),
                          !.cache = Del(@, IndexKey(GetOrEmpty(tool_input, "path")))]
      [] tool_input.command = "rename" ->
             LET old_path == IndexKey(GetOrEmpty(tool_input, "old_path"))
                 new_path == IndexKey(GetOrEmpty(tool_input, "new_path"))
             IN [self EXCEPT !.files = IF old_path \in DOMAIN @
                                       THEN MapPut(MapPop(@, old_path), new_path, @[old_path])
                                       ELSE @,
                             !.cache = MoveEntry(@, old_path, new_path)]
      [] OTHER -> self

\* ReverseEngineeredMemory.handle_tool_call
reverse_handle_tool_call(self, tool_input) ==
    IF ~Given(tool_input, "command") \/ tool_input.command = ""
    THEN RevOk(self, Error(<<" No command specified">>))
    ELSE IF tool_input.command \notin Commands
    THEN RevOk(self, Error(<<" Unknown command '", tool_input.command, "'">>))
    ELSE LET h == reverse_handler(self, tool_input)
         IN IF h.exc = "" THEN [h EXCEPT !.self = update_index_partial(@, tool_input)]
            ELSE [h EXCEPT !.result = Error(@)]

----------------------------------------------------------------------------
(* the state machine: one action per command of the tool, and the clock *)

\* the engine object as a call finds it
Self ==
    [memory_blocks |-> memory_blocks, files |-> files, access_patterns |-> access_patterns,
     predicted_next |-> predicted_next, reorganize_counter |-> reorganize_counter,
     io_failed |-> io_failed, pass_ran |-> FALSE, moves |-> <<>>, placed |-> None]

\* __init__ on an empty base directory, lines 76-108
Init ==
    /\ memory_blocks = [tier \in Tiers |-> <<>>]
    /\ files = [tier \in Tiers |-> <<>>]
    /\ access_patterns = <<>>
    /\ predicted_next = {}
    /\ reorganize_counter = 0
    /\ now = 0
    /\ call = <<>>
    /\ ret = <<>>
    /\ ncalls = 0
    /\ io_failed = FALSE
    /\ pass_ran = FALSE
    /\ moves = <<>>
    /\ placed = None
    /\ tool_memory = EmptyDisk
    /\ official_memory = EmptyDisk
    /\ reverse_memory = NewReverse
    /\ request = <<>>
    /\ results = [tool |-> <<>>, official |-> <<>>, reverse |-> <<>>]
    /\ nrequests = 0
    /\ used = <<>>

\* the engine and the caller after a call that ended as r
Outcome(tool_input, r) ==
    /\ memory_blocks' = r.self.memory_blocks
    /\ files' = r.self.files
    /\ access_patterns' = r.self.access_patterns
    /\ predicted_next' = r.self.predicted_next
    /\ reorganize_counter' = r.self.reorganize_counter
    /\ io_failed' = r.self.io_failed
    /\ pass_ran' = r.self.pass_ran
    /\ moves' = r.self.moves
    /\ placed' = r.self.placed
    /\ call' = tool_input
    /\ ret' = r.result
    /\ ncalls' = ncalls + 1
    /\ UNCHANGED now

\* one call of handle_tool_call(tool_input), the reorganization it triggers included
Dispatch(tool_input) ==
    /\ \E r \in {handle_tool_call(Self, now, tool_input)} : Outcome(tool_input, r)
    /\ UNCHANGED others

Command(tool_input) == IF Given(tool_input, "command") THEN tool_input.command ELSE ""

View(tool_input) == Command(tool_input) = "view" /\ Dispatch(tool_input)

Create(tool_input) == Command(tool_input) = "create" /\ Dispatch(tool_input)

StrReplace(tool_input) == Command(tool_input) = "str_replace" /\ Dispatch(tool_input)

Insert(tool_input) == Command(tool_input) = "insert" /\ Dispatch(tool_input)

Delete(tool_input) == Command(tool_input) = "delete" /\ Dispatch(tool_input)

Rename(tool_input) == Command(tool_input) = "rename" /\ Dispatch(tool_input)

\* a request that names no command, or one the tool does not know
Unknown(tool_input) == Command(tool_input) \notin Commands /\ Dispatch(tool_input)

\* one call of handle_tool_call with the listing of /memories, by which a
\* caller keeps the store in use for ever; ncalls stops counting at max
KeepListing(max) ==
    \E tool_input \in {[command |-> "view", path |-> Root]} :
    \E r \in {handle_tool_call(Self, now, tool_input)} :
       /\ memory_blocks' = r.self.memory_blocks
       /\ files' = r.self.files
       /\ access_patterns' = r.self.access_patterns
       /\ predicted_next' = r.self.predicted_next
       /\ reorganize_counter' = r.self.reorganize_counter
       /\ io_failed' = r.self.io_failed
       /\ pass_ran' = r.self.pass_ran
       /\ moves' = r.self.moves
       /\ placed' = r.self.placed
       /\ call' = tool_input
       /\ ret' = r.result
       /\ ncalls' = IF ncalls < max THEN ncalls + 1 ELSE ncalls
       /\ UNCHANGED now
       /\ UNCHANGED others

\* time passes between two commands
Tick(d) ==
    /\ now' = now + d
    /\ UNCHANGED <<memory_blocks, files, access_patterns, predicted_next,
                   reorganize_counter, call, ret, ncalls, io_failed, pass_ran, moves,
                   placed>>
    /\ UNCHANGED others

\* the variables of the tiered engine and its caller
engine == <<memory_blocks, files, access_patterns, predicted_next, reorganize_counter,
            now, call, ret, ncalls, io_failed, pass_ran, moves, placed>>

\* one call of MemoryToolHandler.handle_tool_call(tool_input)
ToolCall(tool_input) ==
    LET r == tool_handle_tool_call(tool_memory, tool_input)
    IN /\ tool_memory' = r.disk
       /\ results' = [results EXCEPT !.tool = r.result]
       /\ request' = tool_input
       /\ nrequests' = nrequests + 1
       /\ UNCHANGED <<official_memory, reverse_memory, used>>
       /\ UNCHANGED engine

\* one call of ClaudeOfficialMemory.handle_tool_call(tool_input)
OfficialCall(tool_input) ==
    LET r == official_handle_tool_call(official_memory, tool_input)
    IN /\ official_memory' = r.disk
       /\ results' = [results EXCEPT !.official = r.result]
       /\ request' = tool_input
       /\ nrequests' = nrequests + 1
       /\ UNCHANGED <<tool_memory, reverse_memory, used>>
       /\ UNCHANGED engine

\* p has just been read or written
Touch(u, p) == Append(SelectSeq(u, LAMBDA q : q # p), p)

\* the paths used, after the call of tool_input that ended as r: a view of a
\* file and a write use the path, a delete forgets the path and what is below
\* it, a rename hands the place of the old path to the new one
UsedAfter(u, tool_input, r) ==
    LET cmd == IF Given(tool_input, "command") THEN tool_input.command ELSE ""
        rel(field) == RelPath(resolve_path(tool_input[field]).full)
    IN IF cmd = "view"
       THEN IF Given(tool_input, "path") /\ resolve_path(tool_input.path).ok
               /\ IsFile(r.self.disk, resolve_path(tool_input.path).full)
            THEN Touch(u, rel("path")) ELSE u
       ELSE IF IsError(r.result) THEN u
       ELSE IF cmd \in {"create", "str_replace", "insert"} THEN Touch(u, rel("path"))
       ELSE IF cmd = "delete"
       THEN SelectSeq(u, LAMBDA q : q # rel("path") /\ ~StartsWith(q, rel("path") \o <<"/">>))
       ELSE IF cmd = "rename"
       THEN [i \in DOMAIN u |->
                IF u[i] = rel("old_path") THEN rel("new_path")
                ELSE IF StartsWith(u[i], rel("old_path") \o <<"/">>)
                THEN rel("new_path") \o Drop(u[i], Len(rel("old_path")))
                ELSE u[i]]
       ELSE u

\* one call of ReverseEngineeredMemory.handle_tool_call(tool_input)
ReverseCall(tool_input) ==
    LET r == reverse_handle_tool_call(reverse_memory, tool_input)
    IN /\ reverse_memory' = r.self
       /\ results' = [results EXCEPT !.reverse = r.result]
       /\ request' = tool_input
       /\ nrequests' = nrequests + 1
       /\ used' = UsedAfter(used, tool_input, r)
       /\ UNCHANGED <<tool_memory, official_memory>>
       /\ UNCHANGED engine

\* MemoryTestHarness: the same tool_input handed to a ClaudeOfficialMemory, a
\* ReverseEngineeredMemory and an AdvancedMemory, each on a directory of its own
SameCall(tool_input) ==
    LET o == official_handle_tool_call(official_memory, tool_input)
        r == reverse_handle_tool_call(reverse_memory, tool_input)
    IN /\ Outcome(tool_input, handle_tool_call(Self, now, tool_input))
       /\ official_memory' = o.disk
       /\ reverse_memory' = r.self
       /\ results' = [results EXCEPT !.official = o.result, !.reverse = r.result]
       /\ request' = tool_input
       /\ nrequests' = nrequests + 1
       /\ used' = UsedAfter(used, tool_input, r)
       /\ UNCHANGED tool_memory

----------------------------------------------------------------------------
(* the commands and bounds of the checked instances *)

PathA == Root \o <<"/", "a">>

PathB == Root \o <<"/", "b">>

KeyA == <<"a">>

KeyB == <<"b">>

Small == <<"A">>

Accent == <<"e'">>

Run4000 == <<"h*4000">>

Run500 == <<"f*500">>

Run200000 == <<"g*200000">>

Run102400 == <<"m*102400">>

\* a store used freely for a few commands: every command, two keys, the key of
\* the tier directory itself, texts of every size class

MaxCalls == 3

MaxTime == 100

Inputs ==
    [command : {"view"}, path : {Root, PathA, PathB}]
    \cup [command : {"create"}, path : {PathA, PathB},
          file_text : {Small, Accent, Run4000, Run500, Run200000}]
    \cup [command : {"create"}, path : {Root}, file_text : {Small}]
    \cup [command : {"str_replace"}, path : {PathA, PathB}, old_str : {Small}, new_str : {Run4000}]
    \cup [command : {"insert"}, path : {PathA, PathB}, insert_line : {0, 2}, insert_text : {Small}]
    \cup [command : {"delete"}, path : {PathA, PathB}]
    \cup [command : {"rename"}, old_path : {PathA}, new_path : {PathB}]
    \cup [command : {"list"}]

Next ==
    \/ \E tool_input \in Inputs : ncalls < MaxCalls /\ View(tool_input)
    \/ \E tool_input \in Inputs : ncalls < MaxCalls /\ Create(tool_input)
    \/ \E tool_input \in Inputs : ncalls < MaxCalls /\ StrReplace(tool_input)
    \/ \E tool_input \in Inputs : ncalls < MaxCalls /\ Insert(tool_input)
    \/ \E tool_input \in Inputs : ncalls < MaxCalls /\ Delete(tool_input)
    \/ \E tool_input \in Inputs : ncalls < MaxCalls /\ Rename(tool_input)
    \/ \E tool_input \in Inputs : ncalls < MaxCalls /\ Unknown(tool_input)
    \/ \E d \in {100} : now + d <= MaxTime /\ Tick(d)

Spec == Init /\ [][Next]_vars

\* a store used long enough for reorganization passes: one key that is read and
\* rewritten, a second one that fills the working tier

MaxCallsDeep == 10

MaxTimeDeep == 100

DeepInputs ==
    {[command |-> "view", path |-> Root],
     [command |-> "view", path |-> PathA],
     [command |-> "create", path |-> PathA, file_text |-> Small],
     [command |-> "create", path |-> PathB, file_text |-> Run4000],
     [command |-> "str_replace", path |-> PathA, old_str |-> Small, new_str |-> Run4000],
     [command |-> "str_replace", path |-> PathA, old_str |-> Small, new_str |-> Small],
     [command |-> "delete", path |-> PathB]}

NextDeep ==
    \/ \E tool_input \in DeepInputs : ncalls < MaxCallsDeep /\ View(tool_input)
    \/ \E tool_input \in DeepInputs : ncalls < MaxCallsDeep /\ Create(tool_input)
    \/ \E tool_input \in DeepInputs : ncalls < MaxCallsDeep /\ StrReplace(tool_input)
    \/ \E tool_input \in DeepInputs : ncalls < MaxCallsDeep /\ Delete(tool_input)
    \/ \E d \in {100} : now + d <= MaxTimeDeep /\ Tick(d)

SpecDeep == Init /\ [][NextDeep]_vars

\* a store whose counter is driven past the threshold: listings, commands that
\* fail, a block under the key of the tier directory, and idle times beyond the
\* demotion age and the archive age

MaxCallsCounter == 12

MaxTimeCounter == 3601

CounterInputs ==
    {[command |-> "view", path |-> Root],
     [command |-> "view", path |-> PathB],
     [command |-> "create", path |-> Root, file_text |-> Small],
     [command |-> "create", path |-> PathA, file_text |-> Small],
     [command |-> "delete", path |-> PathB],
     [command |-> "list"]}

NextCounter ==
    \/ \E tool_input \in CounterInputs : ncalls < MaxCallsCounter /\ View(tool_input)
    \/ \E tool_input \in CounterInputs : ncalls < MaxCallsCounter /\ Create(tool_input)
    \/ \E tool_input \in CounterInputs : ncalls < MaxCallsCounter /\ Delete(tool_input)
    \/ \E tool_input \in CounterInputs : ncalls < MaxCallsCounter /\ Unknown(tool_input)
    \/ \E d \in {601, 3000} : now + d <= MaxTimeCounter /\ Tick(d)

SpecCounter == Init /\ [][NextCounter]_vars

\* a store whose keys are read often enough for the access rule of the placement
\* policy to decide, with texts beyond every size limit and a clock that leaves
\* the 300 s window

MaxCallsPolicy == 7

MaxTimePolicy == 300

PolicyInputs ==
    {[command |-> "view", path |-> PathA],
     [command |-> "create", path |-> PathA, file_text |-> Small],
     [command |-> "create", path |-> PathA, file_text |-> Run200000],
     [command |-> "create", path |-> PathB, file_text |-> Run4000],
     [command |-> "str_replace", path |-> PathA, old_str |-> Small, new_str |-> Run4000]}

NextPolicy ==
    \/ \E tool_input \in PolicyInputs : ncalls < MaxCallsPolicy /\ View(tool_input)
    \/ \E tool_input \in PolicyInputs : ncalls < MaxCallsPolicy /\ Create(tool_input)
    \/ \E tool_input \in PolicyInputs : ncalls < MaxCallsPolicy /\ StrReplace(tool_input)
    \/ \E d \in {300} : now + d <= MaxTimePolicy /\ Tick(d)

SpecPolicy == Init /\ [][NextPolicy]_vars

\* a store whose one block starts in overflow and is then read, edited to a text
\* that fits working, archival or neither, and renamed, until a pass has run
\* with the block in overflow

MaxCallsOverflow == 10

OverflowInputs ==
    {[command |-> "create", path |-> PathA, file_text |-> Run200000],
     [command |-> "view", path |-> PathA],
     [command |-> "str_replace", path |-> PathA, old_str |-> Run200000, new_str |-> Small],
     [command |-> "str_replace", path |-> PathA, old_str |-> Run200000, new_str |-> Run102400],
     [command |-> "insert", path |-> PathA, insert_line |-> 0, insert_text |-> Small],
     [command |-> "rename", old_path |-> PathA, new_path |-> PathB]}

NextOverflow ==
    \/ \E tool_input \in OverflowInputs : ncalls < MaxCallsOverflow /\ View(tool_input)
    \/ \E tool_input \in OverflowInputs : ncalls < MaxCallsOverflow /\ Create(tool_input)
    \/ \E tool_input \in OverflowInputs : ncalls < MaxCallsOverflow /\ StrReplace(tool_input)
    \/ \E tool_input \in OverflowInputs : ncalls < MaxCallsOverflow /\ Insert(tool_input)
    \/ \E tool_input \in OverflowInputs : ncalls < MaxCallsOverflow /\ Rename(tool_input)

SpecOverflow == Init /\ [][NextOverflow]_vars

\* a store whose one block is given every short text over two letters and is
\* then edited with every short search string and replacement, the empty ones
\* included

MaxCallsText == 2

MaxTextLen == 4

Letters == {"a", "b"}

\* the texts of at most n letters
Strings(n) == UNION {[1..k -> Letters] : k \in 0..n}

\* search strings: empty, one letter, two letters, two equal letters
OldStrs == {<<>>, <<"a">>, <<"a", "b">>, <<"a", "a">>}

\* replacements: empty, without and with the letter searched for
NewStrs == {<<>>, <<"b">>, <<"a">>}

TextInputs ==
    {[command |-> "create", path |-> PathA, file_text |-> s] : s \in Strings(MaxTextLen)}
    \cup {[command |-> "str_replace", path |-> PathA, old_str |-> o, new_str |-> n] :
              o \in OldStrs, n \in NewStrs}

NextText ==
    \/ \E tool_input \in TextInputs : ncalls < MaxCallsText /\ Create(tool_input)
    \/ \E tool_input \in TextInputs : ncalls < MaxCallsText /\ StrReplace(tool_input)

SpecText == Init /\ [][NextText]_vars

\* a store whose one block is given every short text of letters and line breaks,
\* with and without a final line break, and then gets lines inserted at the
\* start, inside, at the end and beyond the end

MaxCallsLines == 3

MaxLinesLen == 3

\* the texts of at most n characters, each "A" or a line break
LineTexts(n) == UNION {[1..k -> {"A", "\n"}] : k \in 0..n}

LinesInputs ==
    {[command |-> "create", path |-> PathA, file_text |-> s] :
         s \in LineTexts(MaxLinesLen) \cup {<<"A", "\n", "B">>}}
    \cup {[command |-> "insert", path |-> PathA, insert_line |-> n, insert_text |-> x] :
              n \in {0, 1, 2, 5}, x \in {<<>>, <<"X">>}}

NextLines ==
    \/ \E tool_input \in LinesInputs : ncalls < MaxCallsLines /\ Create(tool_input)
    \/ \E tool_input \in LinesInputs : ncalls < MaxCallsLines /\ Insert(tool_input)

SpecLines == Init /\ [][NextLines]_vars

\* a store whose one block is written again and again, read or left alone,
\* while the clock passes the demotion age and the commands reach a pass

MaxCallsWrites == 10

MaxTimeWrites == 601

WritesInputs ==
    {[command |-> "create", path |-> PathA, file_text |-> Small],
     [command |-> "str_replace", path |-> PathA, old_str |-> Small, new_str |-> Small],
     [command |-> "insert", path |-> PathA, insert_line |-> 1, insert_text |-> <<>>],
     [command |-> "view", path |-> PathA],
     [command |-> "view", path |-> Root]}

NextWrites ==
    \/ \E tool_input \in WritesInputs : ncalls < MaxCallsWrites /\ View(tool_input)
    \/ \E tool_input \in WritesInputs : ncalls < MaxCallsWrites /\ Create(tool_input)
    \/ \E tool_input \in WritesInputs : ncalls < MaxCallsWrites /\ StrReplace(tool_input)
    \/ \E tool_input \in WritesInputs : ncalls < MaxCallsWrites /\ Insert(tool_input)
    \/ \E d \in {601} : now + d <= MaxTimeWrites /\ Tick(d)

SpecWrites == Init /\ [][NextWrites]_vars

\* a store that is sent requests each lacking one field of its command, between
\* complete creates

MaxCallsFields == 4

\* one request per command and field left out
Incomplete ==
    {[command |-> "create", file_text |-> Small],
     [command |-> "create", path |-> PathA],
     [command |-> "str_replace", old_str |-> Small, new_str |-> Accent],
     [command |-> "str_replace", path |-> PathA, new_str |-> Accent],
     [command |-> "str_replace", path |-> PathA, old_str |-> Small],
     [command |-> "insert", insert_line |-> 0, insert_text |-> Small],
     [command |-> "insert", path |-> PathA, insert_text |-> Small],
     [command |-> "delete"],
     [command |-> "rename", new_path |-> PathB],
     [command |-> "rename", old_path |-> PathA]}

FieldsInputs ==
    Incomplete \cup {[command |-> "create", path |-> PathA, file_text |-> Small],
                     [command |-> "create", path |-> PathB, file_text |-> Small]}

NextFields ==
    \/ \E tool_input \in FieldsInputs : ncalls < MaxCallsFields /\ Create(tool_input)
    \/ \E tool_input \in FieldsInputs : ncalls < MaxCallsFields /\ StrReplace(tool_input)
    \/ \E tool_input \in FieldsInputs : ncalls < MaxCallsFields /\ Insert(tool_input)
    \/ \E tool_input \in FieldsInputs : ncalls < MaxCallsFields /\ Delete(tool_input)
    \/ \E tool_input \in FieldsInputs : ncalls < MaxCallsFields /\ Rename(tool_input)

SpecFields == Init /\ [][NextFields]_vars

\* a store one of whose texts starts with the characters of the error prefix

MaxCallsPrefix == 4

ErrorText == <<"Error:", "A">>

PrefixInputs ==
    {[command |-> "create", path |-> PathA, file_text |-> Small],
     [command |-> "create", path |-> PathB, file_text |-> ErrorText],
     [command |-> "view", path |-> PathA],
     [command |-> "view", path |-> PathB],
     [command |-> "str_replace", path |-> PathA, old_str |-> Small, new_str |-> ErrorText],
     [command |-> "insert", path |-> PathA, insert_line |-> -1, insert_text |-> Small],
     [command |-> "delete", path |-> PathB],
     [command |-> "rename", old_path |-> PathB, new_path |-> PathA]}

NextPrefix ==
    \/ \E tool_input \in PrefixInputs : ncalls < MaxCallsPrefix /\ View(tool_input)
    \/ \E tool_input \in PrefixInputs : ncalls < MaxCallsPrefix /\ Create(tool_input)
    \/ \E tool_input \in PrefixInputs : ncalls < MaxCallsPrefix /\ StrReplace(tool_input)
    \/ \E tool_input \in PrefixInputs : ncalls < MaxCallsPrefix /\ Insert(tool_input)
    \/ \E tool_input \in PrefixInputs : ncalls < MaxCallsPrefix /\ Delete(tool_input)
    \/ \E tool_input \in PrefixInputs : ncalls < MaxCallsPrefix /\ Rename(tool_input)

SpecPrefix == Init /\ [][NextPrefix]_vars

\* views of two keys at times 0 s, 1 s, 9 s, 10 s and more apart

MaxCallsPredict == 5

MaxTimePredict == 19

PredictInputs ==
    {[command |-> "create", path |-> PathA, file_text |-> Small],
     [command |-> "create", path |-> PathB, file_text |-> Small],
     [command |-> "view", path |-> PathA],
     [command |-> "view", path |-> PathB],
     [command |-> "delete", path |-> PathB]}

NextPredict ==
    \/ \E tool_input \in PredictInputs : ncalls < MaxCallsPredict /\ View(tool_input)
    \/ \E tool_input \in PredictInputs : ncalls < MaxCallsPredict /\ Create(tool_input)
    \/ \E tool_input \in PredictInputs : ncalls < MaxCallsPredict /\ Delete(tool_input)
    \/ \E d \in {9, 10} : now + d <= MaxTimePredict /\ Tick(d)

SpecPredict == Init /\ [][NextPredict]_vars

\* the two baseline handlers, each on a directory tree of its own, with paths
\* inside the base directory, paths that leave it through "..", and a path that
\* starts again at "/"

MaxRequests == 3

Up == <<"/", "..">>

PathAB == PathA \o <<"/", "b">>

\* paths that name the base directory or something below it
InsidePaths ==
    {Root, PathA, PathB, PathAB,
     PathA \o Up,
     Root \o Up \o <<"/", "memories", "/", "b">>}

\* paths that name the file next to the base directory, the parent of the base
\* directory, and "/"
OutsidePaths ==
    {Root \o Up \o <<"/", "secret">>,
     <<"..", "/", "secret">>,
     Root \o <<"/", "/", "srv", "/", "secret">>,
     PathAB \o Up \o Up \o Up \o <<"/", "secret">>,
     Root \o Up,
     Root \o Up \o Up}

SecretFromRoot == Root \o Up \o <<"/", "secret">>

BaselineInputs ==
    {[command |-> "create", path |-> PathA, file_text |-> Small],
     [command |-> "create", path |-> PathAB, file_text |-> Small],
     [command |-> "create", path |-> SecretFromRoot, file_text |-> Small],
     [command |-> "view", path |-> Root],
     [command |-> "view", path |-> SecretFromRoot],
     [command |-> "str_replace", path |-> PathA, old_str |-> Small, new_str |-> <<"A", "\n">>],
     [command |-> "insert", path |-> PathB, insert_line |-> 0, insert_text |-> <<"B">>],
     [command |-> "insert", path |-> PathA, insert_line |-> 1, insert_text |-> <<"B">>],
     [command |-> "delete", path |-> PathA],
     [command |-> "delete", path |-> Root],
     [command |-> "delete", path |-> SecretFromRoot],
     [command |-> "rename", old_path |-> PathA, new_path |-> PathB],
     [command |-> "rename", old_path |-> PathA, new_path |-> SecretFromRoot],
     [command |-> "rename", old_path |-> Root, new_path |-> PathA]}

NextBaseline ==
    \/ \E tool_input \in BaselineInputs : nrequests < MaxRequests /\ ToolCall(tool_input)
    \/ \E tool_input \in BaselineInputs : nrequests < MaxRequests /\ OfficialCall(tool_input)

SpecBaseline == Init /\ [][NextBaseline]_vars

\* the same commands on single-segment paths handed to a ClaudeOfficialMemory, a
\* ReverseEngineeredMemory and an AdvancedMemory

MaxCallsLockstep == 4

CrText == <<"A", "\r", "B">>

LockstepInputs ==
    {[command |-> "create", path |-> PathA, file_text |-> Small],
     [command |-> "create", path |-> PathB, file_text |-> <<"B">>],
     [command |-> "create", path |-> PathA, file_text |-> Run4000],
     [command |-> "create", path |-> PathA, file_text |-> Run500],
     [command |-> "create", path |-> PathB, file_text |-> CrText],
     [command |-> "view", path |-> PathA],
     [command |-> "view", path |-> PathB],
     [command |-> "str_replace", path |-> PathA, old_str |-> Small, new_str |-> <<"A", "\n">>],
     [command |-> "insert", path |-> PathA, insert_line |-> 2, insert_text |-> <<"X">>],
     [command |-> "insert", path |-> PathB, insert_line |-> 0, insert_text |-> <<"X">>],
     [command |-> "delete", path |-> PathA],
     [command |-> "rename", old_path |-> PathA, new_path |-> PathB]}

NextLockstep ==
    \E tool_input \in LockstepInputs : ncalls < MaxCallsLockstep /\ SameCall(tool_input)

SpecLockstep == Init /\ [][NextLockstep]_vars

\* two spellings of one flat key: nested under a directory name, and with the
\* underscore written out

MaxCallsAlias == 3

PathNested == Root \o <<"/", "a", "/", "b">>

PathFlat == Root \o <<"/", "a", "_", "b">>

AliasInputs ==
    [command : {"create"}, path : {PathNested, PathFlat}, file_text : {Small, Run4000, Run500}]
    \cup [command : {"view", "delete"}, path : {PathNested, PathFlat}]
    \cup [command : {"str_replace"}, path : {PathNested, PathFlat}, old_str : {Small},
          new_str : {<<"B">>}]

NextAlias ==
    \/ \E tool_input \in AliasInputs : ncalls < MaxCallsAlias /\ View(tool_input)
    \/ \E tool_input \in AliasInputs : ncalls < MaxCallsAlias /\ Create(tool_input)
    \/ \E tool_input \in AliasInputs : ncalls < MaxCallsAlias /\ StrReplace(tool_input)
    \/ \E tool_input \in AliasInputs : ncalls < MaxCallsAlias /\ Delete(tool_input)

SpecAlias == Init /\ [][NextAlias]_vars

\* a store whose working tier is filled to its limit and one character beyond,
\* by creates, by edits that grow a block where it lies, by renames and by
\* passes that promote, and with reads of one key; the clock stands still, so
\* a key has more than 3 recent accesses as soon as it was read four times

MaxCallsWorking == 10

Run96 == <<"p*96">>

Run97 == <<"q*97">>

WorkingInputs ==
    {[command |-> "view", path |-> PathB],
     [command |-> "create", path |-> PathA, file_text |-> Run4000],
     [command |-> "create", path |-> PathB, file_text |-> Run96],
     [command |-> "str_replace", path |-> PathB, old_str |-> Run96, new_str |-> Run97],
     [command |-> "str_replace", path |-> PathB, old_str |-> Run97, new_str |-> Run96],
     [command |-> "insert", path |-> PathA, insert_line |-> 0, insert_text |-> Run96],
     [command |-> "rename", old_path |-> PathB, new_path |-> PathA],
     [command |-> "delete", path |-> PathA]}

NextWorking ==
    \/ \E tool_input \in WorkingInputs : ncalls < MaxCallsWorking /\ View(tool_input)
    \/ \E tool_input \in WorkingInputs : ncalls < MaxCallsWorking /\ Create(tool_input)
    \/ \E tool_input \in WorkingInputs : ncalls < MaxCallsWorking /\ StrReplace(tool_input)
    \/ \E tool_input \in WorkingInputs : ncalls < MaxCallsWorking /\ Insert(tool_input)
    \/ \E tool_input \in WorkingInputs : ncalls < MaxCallsWorking /\ Rename(tool_input)
    \/ \E tool_input \in WorkingInputs : ncalls < MaxCallsWorking /\ Delete(tool_input)

SpecWorking == Init /\ [][NextWorking]_vars

\* a store whose blocks are edited without a change of their size: a block that
\* fills the working tier nearly alone, a small one beside it, and a block of
\* one character

MaxCallsSameSize == 4

MaxTimeSameSize == 300

SameSizeEdits ==
    {[command |-> "str_replace", path |-> PathA, old_str |-> Run4000, new_str |-> Run4000],
     [command |-> "str_replace", path |-> PathA, old_str |-> Small, new_str |-> <<"B">>],
     [command |-> "str_replace", path |-> PathB, old_str |-> Run96, new_str |-> Run96]}

SameSizeInputs ==
    {[command |-> "view", path |-> PathA],
     [command |-> "create", path |-> PathA, file_text |-> Run4000],
     [command |-> "create", path |-> PathA, file_text |-> Small],
     [command |-> "create", path |-> PathB, file_text |-> Run96]}
    \cup SameSizeEdits

NextSameSize ==
    \/ \E tool_input \in SameSizeInputs : ncalls < MaxCallsSameSize /\ View(tool_input)
    \/ \E tool_input \in SameSizeInputs : ncalls < MaxCallsSameSize /\ Create(tool_input)
    \/ \E tool_input \in SameSizeInputs : ncalls < MaxCallsSameSize /\ StrReplace(tool_input)
    \/ \E d \in {300} : now + d <= MaxTimeSameSize /\ Tick(d)

SpecSameSize == Init /\ [][NextSameSize]_vars

\* a store whose two keys are read, so that they have a history and are
\* predicted, and are then renamed, to a free key, to each other and to the key
\* of the tier directory, deleted and created again

MaxCallsHistory == 5

PathC == Root \o <<"/", "c">>

HistoryInputs ==
    {[command |-> "view", path |-> PathA],
     [command |-> "view", path |-> PathB],
     [command |-> "create", path |-> PathA, file_text |-> Small],
     [command |-> "create", path |-> PathB, file_text |-> Small],
     [command |-> "delete", path |-> PathA],
     [command |-> "rename", old_path |-> PathA, new_path |-> PathB],
     [command |-> "rename", old_path |-> PathA, new_path |-> PathC],
     [command |-> "rename", old_path |-> PathA, new_path |-> Root]}

NextHistory ==
    \/ \E tool_input \in HistoryInputs : ncalls < MaxCallsHistory /\ View(tool_input)
    \/ \E tool_input \in HistoryInputs : ncalls < MaxCallsHistory /\ Create(tool_input)
    \/ \E tool_input \in HistoryInputs : ncalls < MaxCallsHistory /\ Delete(tool_input)
    \/ \E tool_input \in HistoryInputs : ncalls < MaxCallsHistory /\ Rename(tool_input)

SpecHistory == Init /\ [][NextHistory]_vars

\* a store that is set up with a few commands, early enough for the clock to
\* pass the archive age afterwards, and is then left alone: the caller goes on
\* listing /memories and the clock goes on

MaxCallsIdle == 3

MaxTimeIdle == 4802

IdleInputs ==
    {[command |-> "view", path |-> PathA],
     [command |-> "create", path |-> PathA, file_text |-> Small],
     [command |-> "create", path |-> PathA, file_text |-> Run4000],
     [command |-> "create", path |-> PathB, file_text |-> Run4000],
     [command |-> "create", path |-> Root, file_text |-> Small]}

\* a command of the setup can still be issued
SetUp == ncalls < MaxCallsIdle /\ now + ArchiveAge + DemoteAge < MaxTimeIdle

IdleTick == \E d \in {601, 3000} : now + d <= MaxTimeIdle /\ Tick(d)

NextIdle ==
    \/ \E tool_input \in IdleInputs : SetUp /\ View(tool_input)
    \/ \E tool_input \in IdleInputs : SetUp /\ Create(tool_input)
    \/ KeepListing(MaxCallsIdle)
    \/ IdleTick

SpecIdle == Init /\ [][NextIdle]_vars

\* commands keep being issued and the clock keeps advancing
FairSpecIdle == SpecIdle /\ WF_vars(KeepListing(MaxCallsIdle)) /\ WF_vars(IdleTick)

\* a ReverseEngineeredMemory that is given one file after the other, in the
\* order of their names and each with its name as text, and that, once the
\* cache is nearly full, is also asked to read, rewrite, rename and delete the
\* first files

MaxFiles == 11

MaxCallsCache == 13

WarmFiles == 9

FileNames == [i \in 1..MaxFiles |-> SortedNames[i]]

PathOf(name) == Root \o <<"/", name>>

\* the files of the base directory
FilesOnDisk == {name \in {FileNames[i] : i \in 1..MaxFiles} : IsFile(reverse_memory.disk, BasePath \o <<name>>)}

CacheInputs ==
    {[command |-> "view", path |-> PathA],
     [command |-> "view", path |-> PathB],
     [command |-> "create", path |-> PathA, file_text |-> Small],
     [command |-> "create", path |-> PathB, file_text |-> Small],
     [command |-> "str_replace", path |-> PathB, old_str |-> <<"b">>, new_str |-> Accent],
     [command |-> "insert", path |-> PathA, insert_line |-> 0, insert_text |-> Accent],
     [command |-> "rename", old_path |-> PathA, new_path |-> PathB],
     [command |-> "delete", path |-> PathA]}

FillInputs ==
    {[command |-> "create", path |-> PathOf(name), file_text |-> <<name>>] :
         name \in {FileNames[i] : i \in 1..MaxFiles}}

NextCache ==
    \/ \E i \in 1..MaxFiles :
           /\ nrequests < MaxCallsCache
           /\ FileNames[i] \notin FilesOnDisk
           /\ \A j \in 1..(i - 1) : FileNames[j] \in FilesOnDisk
           /\ ReverseCall([command |-> "create", path |-> PathOf(FileNames[i]),
                           file_text |-> <<FileNames[i]>>])
    \/ \E tool_input \in CacheInputs :
           /\ nrequests < MaxCallsCache
           /\ Cardinality(FilesOnDisk) >= WarmFiles
           /\ ReverseCall(tool_input)

SpecCache == Init /\ [][NextCache]_vars

----------------------------------------------------------------------------
(* the properties *)

\* the flat key the latest command addressed
CallKey == validate_path(call.path)

\* the tiers whose mapping holds key
TiersOf(key) == {tier \in Tiers : Has(memory_blocks[tier], key)}

\* C1: every flat key is present in at most one of the three tier mappings.
TierExclusivity ==
    \A t1 \in Tiers, t2 \in Tiers :
        t1 # t2 => DictKeys(memory_blocks[t1]) \cap DictKeys(memory_blocks[t2]) = {}

\* C2: in every reachable state, a create(path, X) that succeeds, immediately
\* followed by view(path), returns exactly X.
CreateThenViewRoundTrip ==
    \A tool_input \in Inputs :
        tool_input.command = "create" =>
            LET c == handle_tool_call(Self, now, tool_input)
                v == handle_tool_call(c.self, now, [command |-> "view", path |-> tool_input.path])
            IN ~IsError(c.result) => v.result = tool_input.file_text

\* C3: while no file operation has failed, between two commands a key is in a
\* tier's mapping iff a file of that name is in the tier's directory, and the
\* file's text is the block's content.
DiskMirrorsMemory ==
    ~io_failed =>
        \A tier \in Tiers :
            /\ DOMAIN files[tier] = DictKeys(memory_blocks[tier])
            /\ \A key \in DOMAIN files[tier] :
                   files[tier][key] = Get(memory_blocks[tier], key).content

\* a str_replace has just moved its block to another tier: the file is in the new
\* tier's directory and no longer in the old one
MovedFileFollowsBlock ==
    /\ ~io_failed
    /\ ncalls > 0
    /\ call.command = "str_replace"
    /\ moves = <<<<KeyA, WORKING, ARCHIVAL>>>>
    /\ KeyA \in DOMAIN files[ARCHIVAL]
    /\ KeyA \notin DOMAIN files[WORKING]
    /\ files[ARCHIVAL][KeyA] = Run4000

\* C4: every stored block's size_bytes is the byte length of its content.
SizeIsByteLength ==
    \A tier \in Tiers :
        \A i \in DOMAIN memory_blocks[tier] :
            memory_blocks[tier][i].block.size_bytes = Utf8Len(memory_blocks[tier][i].block.content)

\* the accesses recorded for key with now - t < 300
RecentCount(key) ==
    IF key \in DOMAIN access_patterns
    THEN Cardinality({i \in DOMAIN access_patterns[key] : now - access_patterns[key][i] < 300})
    ELSE 0

\* the placement rule as a function of the count of recent accesses, the working
\* tier's occupancy and the content's length
PolicyRule(recent, occupancy, size) ==
    IF recent > 3 THEN WORKING
    ELSE IF size <= 4096 /\ occupancy + size <= 4096 THEN WORKING
    ELSE IF size <= 102400 THEN ARCHIVAL
    ELSE OVERFLOW

\* texts on both sides of every limit of the rule: 0, 1, 96, 97, 500, 4000, 4096,
\* 4097, 102400, 102401 and 200000 characters
PolicyTexts ==
    {<<>>, Small, <<"p*96">>, <<"q*97">>, Run500, Run4000, <<"h*4000", "p*96">>,
     <<"h*4000", "q*97">>, <<"m*102400">>, <<"m*102400", "A">>, Run200000}

\* C5: in every reachable state the placement policy answers, for every key
\* and content, by the rule: working for more than 3 accesses in the last 300 s,
\* else working if the content and the working total plus the content are within
\* 4096, else archival up to 102400, else overflow (a function of the access
\* history, the clock, the occupancy and the length only); and a 200000-character
\* create for a key with no recorded access leaves that text in overflow.
PlacementPolicy ==
    /\ \A key \in {KeyA, KeyB} :
           \A content \in PolicyTexts :
               determine_tier(Self, now, key, content) =
                   PolicyRule(RecentCount(key), SumSizes(memory_blocks[WORKING]), PyLen(content))
    /\ (/\ ncalls > 0
        /\ call.command = "create"
        /\ PyLen(call.file_text) = 200000
        /\ CallKey \notin DOMAIN access_patterns)
       => /\ placed = OVERFLOW
          /\ Has(memory_blocks[OVERFLOW], CallKey)
          /\ Get(memory_blocks[OVERFLOW], CallKey).content = call.file_text
          /\ ret = <<"Created file: ">> \o call.path \o <<" (tier: ", "overflow", ")">>

\* a create of 200000 characters for a key read more than 3 times in the last
\* 300 s: the access rule overrode the size rules
OversizedCreateOfHotKey ==
    /\ ncalls > 0
    /\ call.command = "create"
    /\ call.file_text = Run200000
    /\ RecentCount(CallKey) > 3
    /\ placed = WORKING
    /\ Has(memory_blocks[WORKING], CallKey)
    /\ Get(memory_blocks[WORKING], CallKey).content = Run200000

\* C6: a create of a key stored in no tier and with no recorded access, of a
\* text of s <= 4096 characters, stores the block in working iff the working
\* total plus s is at most 4096 and in archival otherwise, in no other tier,
\* and the success string names that tier.
CreateFillsWorkingFirst ==
    \A tool_input \in Inputs \cup DeepInputs \cup CounterInputs \cup PolicyInputs :
        LET key == validate_path(tool_input.path)
            s == PyLen(tool_input.file_text)
            tier == IF SumSizes(memory_blocks[WORKING]) + s <= 4096 THEN WORKING ELSE ARCHIVAL
            r == handle_tool_call(Self, now, tool_input)
        IN (/\ Command(tool_input) = "create"
            /\ TiersOf(key) = {}
            /\ key \notin DOMAIN access_patterns
            /\ s <= 4096)
           => /\ {t \in Tiers : Has(r.self.memory_blocks[t], key)} = {tier}
              /\ Get(r.self.memory_blocks[tier], key).content = tool_input.file_text
              /\ Get(r.self.memory_blocks[tier], key).tier = tier
              /\ ~r.raised =>
                     r.result = <<"Created file: ">> \o tool_input.path \o <<" (tier: ", tier, ")">>

\* working holds 4000 characters and a new key was just created with 500: it is
\* in archival, and the command said so
SmallCreateSentToArchival ==
    /\ ncalls > 0
    /\ call.command = "create"
    /\ call.file_text = Run500
    /\ SumSizes(memory_blocks[WORKING]) = 4000
    /\ TiersOf(CallKey) = {ARCHIVAL}
    /\ ret = <<"Created file: ">> \o call.path \o <<" (tier: ", "archival", ")">>

\* C7: when a successful str_replace or insert on an existing key returns, the
\* block is found in the tier the placement policy returned for its new content.
MutationStaysWherePlaced ==
    (/\ ncalls > 0
     /\ call.command \in {"str_replace", "insert"}
     /\ ret # <<>>
     /\ ret[1] \in {"Replaced ", "Inserted text at line "})
    => find_in_tiers(Self, CallKey) = placed

\* C8: between commands the reorganization counter is in 0..9.
CounterBelowThreshold == reorganize_counter \in 0..9

\* C9, as stated: a command whose result is an Error string does not advance
\* the reorganization counter and runs no reorganization pass.
ErrorsAreNotCounted ==
    \A tool_input \in CounterInputs :
        LET r == handle_tool_call(Self, now, tool_input)
        IN IsError(r.result) =>
               /\ r.self.reorganize_counter = reorganize_counter
               /\ ~r.self.pass_ran

\* C9, amended: the reorganization check follows every command whose handler
\* returns, whether the string it returns reports success or an Error: the
\* counter advances by one, a pass runs iff that makes it reach 10, and a pass
\* that completes resets it to 0.  Only a request with a missing or unknown
\* command, or one whose handler raises, leaves the counter alone and runs no pass.
HandledCommandsAreCounted ==
    \A tool_input \in CounterInputs :
        LET r == handle_tool_call(Self, now, tool_input)
        IN IF Command(tool_input) \in Commands /\ ~handler(Self, now, tool_input).raised
           THEN /\ r.self.pass_ran = (reorganize_counter + 1 >= 10)
                /\ r.self.reorganize_counter =
                       IF r.self.pass_ran /\ ~r.raised THEN 0 ELSE reorganize_counter + 1
           ELSE /\ ~r.self.pass_ran
                /\ r.self.reorganize_counter = reorganize_counter

\* a view of a missing file returned its Error and was the command that made the
\* counter reach 10: the pass ran and reset the counter
ErrorTriggeredPass ==
    /\ ncalls > 0
    /\ call.command = "view"
    /\ ret = Error(<<" Path does not exist: ">> \o PathB)
    /\ pass_ran
    /\ reorganize_counter = 0

\* the store as the pass of this command examines the i-th entry of items in its
\* promotion loop
WhenExamined(self, t, items, i) == PromoteLoop(self, t, SubSeq(items, 1, i - 1), 1).self

\* C10: in every command that runs a reorganization pass, an archival block
\* with access_count > 5 and now - last_access < 300 that the pass examines when
\* the working total plus its size is at most 4096 is in working, and not in
\* archival, when the pass ends.
HotArchivalBlockPromoted ==
    \A tool_input \in DeepInputs :
        reorganize_counter + 1 >= 10 =>
            LET h == handler(Self, now, tool_input)
                items == h.self.memory_blocks[ARCHIVAL]
                r == reorganize_memories(h.self, now)
            IN \A i \in DOMAIN items :
                   (/\ items[i].block.access_count > 5
                    /\ now - items[i].block.last_access < 300
                    /\ SumSizes(WhenExamined(h.self, now, items, i).memory_blocks[WORKING])
                           + items[i].block.size_bytes <= 4096)
                   => /\ Has(r.self.memory_blocks[WORKING], items[i].key)
                      /\ Get(r.self.memory_blocks[WORKING], items[i].key).content
                             = items[i].block.content
                      /\ ~Has(r.self.memory_blocks[ARCHIVAL], items[i].key)

\* the 10th command ran the pass, which moved a block with access_count 6, last
\* accessed 100 s ago, from archival to working
PromotedOnTenthCommand ==
    /\ ncalls = 10
    /\ pass_ran
    /\ moves = <<<<KeyA, ARCHIVAL, WORKING>>>>
    /\ TiersOf(KeyA) = {WORKING}
    /\ Get(memory_blocks[WORKING], KeyA).access_count = 6
    /\ now - Get(memory_blocks[WORKING], KeyA).last_access = 100

\* C11: a reorganization pass removes from working every working block with
\* now - last_access > 600 and leaves in working every working block with
\* now - last_access <= 600.
IdleWorkingBlocksDemoted ==
    \A tool_input \in CounterInputs :
        (Command(tool_input) \in Commands /\ reorganize_counter + 1 >= 10) =>
            LET h == handler(Self, now, tool_input)
                items == h.self.memory_blocks[WORKING]
                r == reorganize_memories(h.self, now)
            IN ~h.raised =>
                   \A i \in DOMAIN items :
                       Has(r.self.memory_blocks[WORKING], items[i].key)
                           = (now - items[i].block.last_access <= 600)

\* C12: a working block idle for more than 3600 s when a reorganization pass
\* starts is in overflow, and only there, when the pass has ended; and after a
\* pass no block in working or archival has now - last_access > 3600.
StaleBlocksReachOverflow ==
    \A tool_input \in CounterInputs :
        (Command(tool_input) \in Commands /\ reorganize_counter + 1 >= 10) =>
            LET h == handler(Self, now, tool_input)
                items == h.self.memory_blocks[WORKING]
                r == reorganize_memories(h.self, now)
            IN ~h.raised =>
                   /\ \A i \in DOMAIN items :
                          now - items[i].block.last_access > 3600 =>
                              /\ Has(r.self.memory_blocks[OVERFLOW], items[i].key)
                              /\ ~Has(r.self.memory_blocks[WORKING], items[i].key)
                              /\ ~Has(r.self.memory_blocks[ARCHIVAL], items[i].key)
                   /\ \A tier \in {WORKING, ARCHIVAL} :
                          \A i \in DOMAIN r.self.memory_blocks[tier] :
                              now - r.self.memory_blocks[tier][i].block.last_access <= 3600

\* C13: in every reorganization pass, an archival block is promoted only when
\* the working total plus its size is at most 4096 at that moment, and the
\* working total is at most 4096 right after the promotion; a block with
\* access_count > 5 and now - last_access < 300 that does not fit stays in
\* archival and working is left as it was; and the promotion loop removes no
\* key from working.
PromotionKeepsWorkingCap ==
    \A tool_input \in DeepInputs :
        reorganize_counter + 1 >= 10 =>
            LET h == handler(Self, now, tool_input)
                items == h.self.memory_blocks[ARCHIVAL]
            IN \A i \in DOMAIN items :
                   LET before == WhenExamined(h.self, now, items, i)
                       after == WhenExamined(h.self, now, items, i + 1)
                       room == SumSizes(before.memory_blocks[WORKING])
                                   + items[i].block.size_bytes <= 4096
                   IN /\ after.moves # before.moves =>
                             /\ room
                             /\ after.moves = Append(before.moves,
                                                     <<items[i].key, ARCHIVAL, WORKING>>)
                             /\ SumSizes(after.memory_blocks[WORKING]) <= 4096
                      /\ (/\ items[i].block.access_count > 5
                          /\ now - items[i].block.last_access < 300
                          /\ ~room)
                         => /\ Has(after.memory_blocks[ARCHIVAL], items[i].key)
                            /\ after.memory_blocks[WORKING] = before.memory_blocks[WORKING]
                      /\ DictKeys(before.memory_blocks[WORKING])
                             \subseteq DictKeys(after.memory_blocks[WORKING])

\* the 10th command ran the pass with 4000 bytes in working and a 4000-byte
\* archival block read 6 times or more within the last 300 s: nothing was moved
HotBlockWithoutRoomStays ==
    /\ ncalls = 10
    /\ pass_ran
    /\ moves = <<>>
    /\ SumSizes(memory_blocks[WORKING]) = 4000
    /\ TiersOf(KeyA) = {ARCHIVAL}
    /\ Get(memory_blocks[ARCHIVAL], KeyA).size_bytes = 4000
    /\ Get(memory_blocks[ARCHIVAL], KeyA).access_count > 5
    /\ now - Get(memory_blocks[ARCHIVAL], KeyA).last_access < 300

\* the key a command is addressed to
AddressedKey(tool_input) ==
    IF Command(tool_input) = "rename"
    THEN validate_path(tool_input.old_path)
    ELSE validate_path(tool_input.path)

\* the tiers that hold a block under key in the store self
TiersIn(self, key) == {tier \in Tiers : Has(self.memory_blocks[tier], key)}

\* C14, as stated: a block stored in overflow is still stored in overflow, and in
\* no other tier, after every view, str_replace and insert on it, reorganization
\* pass included; and after a rename it is in overflow under the new key.
OverflowIsTerminal ==
    \A tool_input \in OverflowInputs :
        LET key == AddressedKey(tool_input)
            r == handle_tool_call(Self, now, tool_input)
        IN TiersOf(key) = {OVERFLOW} =>
               CASE Command(tool_input) \in {"view", "str_replace", "insert"} ->
                        TiersIn(r.self, key) = {OVERFLOW}
                 [] Command(tool_input) = "rename" ->
                        TiersIn(r.self, validate_path(tool_input.new_path)) = {OVERFLOW}
                 [] OTHER -> TRUE

\* C14, amended: a block stored in overflow only is left there, unchanged but
\* for its access data, by every view, every failed command and every command
\* addressed to another key, reorganization pass included, and a rename stores
\* it in overflow under the new key; a successful str_replace or insert on it
\* leaves it in the one tier the placement rule gives for its new content, the
\* key's count of recent accesses and the working total.
OverflowLeftOnlyByMutation ==
    \A tool_input \in OverflowInputs :
        \A key \in {KeyA, KeyB} :
            TiersOf(key) = {OVERFLOW} =>
                LET r == handle_tool_call(Self, now, tool_input)
                    cmd == Command(tool_input)
                    on_key == AddressedKey(tool_input) = key
                    block == Get(memory_blocks[OVERFLOW], key)
                IN CASE on_key /\ cmd \in {"str_replace", "insert"} /\ ~IsError(r.result) ->
                            /\ TiersIn(r.self, key) = {r.self.placed}
                            /\ r.self.placed =
                                   PolicyRule(RecentCount(key), SumSizes(memory_blocks[WORKING]),
                                              PyLen(Get(r.self.memory_blocks[r.self.placed], key).content))
                     [] on_key /\ cmd = "rename" /\ ~IsError(r.result) ->
                            LET new_name == validate_path(tool_input.new_path)
                            IN /\ TiersIn(r.self, key) = {}
                               /\ TiersIn(r.self, new_name) = {OVERFLOW}
                               /\ Get(r.self.memory_blocks[OVERFLOW], new_name) = block
                     [] on_key /\ cmd \in {"create", "delete"} /\ ~IsError(r.result) -> TRUE
                     [] OTHER ->
                            /\ TiersIn(r.self, key) = {OVERFLOW}
                            /\ Get(r.self.memory_blocks[OVERFLOW], key).content = block.content
                            /\ Get(r.self.memory_blocks[OVERFLOW], key).size_bytes = block.size_bytes

\* a str_replace just shortened an overflow block to one character and moved it
\* to working
ShrunkOverflowBlockInWorking ==
    /\ ncalls > 0
    /\ call.command = "str_replace"
    /\ ret = <<"Replaced ", "1", " occurrence(s) in ">> \o call.path
    /\ moves = <<<<KeyA, OVERFLOW, WORKING>>>>
    /\ TiersOf(KeyA) = {WORKING}
    /\ Get(memory_blocks[WORKING], KeyA).content = Small

\* C15: in every reachable state, after a successful delete(path) a view of path
\* returns the not-found Error, a rename from path returns the not-found Error,
\* and the key is absent from the access history and from the prediction set.
DeletedKeyIsGone ==
    \A path \in {PathA, PathB} :
        LET d == handle_tool_call(Self, now, [command |-> "delete", path |-> path])
            other == IF path = PathA THEN PathB ELSE PathA
            v == handle_tool_call(d.self, now, [command |-> "view", path |-> path])
            m == handle_tool_call(d.self, now, [command |-> "rename", old_path |-> path,
                                                new_path |-> other])
        IN d.result = <<"Deleted file: ">> \o path =>
               /\ v.result = Error(<<" Path does not exist: ">> \o path)
               /\ m.result = Error(<<" Source path does not exist: ">> \o path)
               /\ validate_path(path) \notin DOMAIN d.self.access_patterns
               /\ validate_path(path) \notin d.self.predicted_next

\* the renames of C16: onto a free key, onto a stored key, onto the same key,
\* and onto the path of the memory root
RenameInputs ==
    {[command |-> "rename", old_path |-> PathA, new_path |-> PathB],
     [command |-> "rename", old_path |-> PathB, new_path |-> PathA],
     [command |-> "rename", old_path |-> PathA, new_path |-> PathA],
     [command |-> "rename", old_path |-> PathA, new_path |-> Root]}

\* C16: the rename command, before the reorganization check that follows it:
\* rename(old, new) returns the not-found Error when old's key is stored in
\* no tier, and the already-exists Error when new's key is stored in some tier;
\* otherwise the block, with its content, access_count and last_access, is
\* stored under the new key in the tier it was in, the old key is no longer
\* stored in that tier, and the access history of the old key is recorded under
\* the new key and no longer under the old.
RenameMovesBlockAndHistory ==
    \A tool_input \in RenameInputs :
        LET old_name == validate_path(tool_input.old_path)
            new_name == validate_path(tool_input.new_path)
            r == Catch(handler(Self, now, tool_input))
        IN IF TiersOf(old_name) = {}
           THEN r.result = Error(<<" Source path does not exist: ">> \o tool_input.old_path)
           ELSE IF TiersOf(new_name) # {}
           THEN r.result = Error(<<" Destination already exists: ">> \o tool_input.new_path)
           ELSE LET tier == find_in_tiers(Self, old_name)
                    block == Get(memory_blocks[tier], old_name)
                IN /\ Has(r.self.memory_blocks[tier], new_name)
                   /\ Get(r.self.memory_blocks[tier], new_name) = block
                   /\ ~Has(r.self.memory_blocks[tier], old_name)
                   /\ old_name \in DOMAIN access_patterns =>
                          /\ new_name \in DOMAIN r.self.access_patterns
                          /\ r.self.access_patterns[new_name] = access_patterns[old_name]
                          /\ old_name \notin DOMAIN r.self.access_patterns

\* the positions of s at which old occurs
Occurrences(s, old) == {i \in 1..(Len(s) + 1) : StartsWith(Drop(s, i - 1), old)}

\* the largest number of occurrences of old in s no two of which overlap
Disjoint(s, old) ==
    LET packings == {P \in SUBSET Occurrences(s, old) :
                        \A i \in P : \A j \in P : i < j => i + Len(old) <= j}
    IN CHOOSE n \in 0..(Len(s) + 1) :
           /\ \E P \in packings : Cardinality(P) = n
           /\ \A P \in packings : Cardinality(P) <= n

\* the str_replace commands of C17: every search string and replacement of at
\* most two letters
ReplaceInputs ==
    {[command |-> "str_replace", path |-> PathA, old_str |-> o, new_str |-> n] :
         o \in Strings(2), n \in Strings(2)}

\* the content of the block a command on PathA finds
StoredText == Get(memory_blocks[find_in_tiers(Self, KeyA)], KeyA).content

\* the count a successful str_replace reported, as a text
Reported(result, path) ==
    IF Len(result) = 3 + Len(path) /\ result[1] = "Replaced " THEN result[2] ELSE "none"

\* C17, as stated: a str_replace on a content of at most MaxTextLen letters in
\* which old_str occurs k >= 1 times reports k replacements, and when new_str does not contain old_str the
\* resulting content contains no occurrence of old_str.
ReplaceLeavesNoOccurrence ==
    \A tool_input \in ReplaceInputs :
        (TiersOf(KeyA) # {} /\ Len(StoredText) <= MaxTextLen) =>
            LET content == StoredText
                k == Disjoint(content, tool_input.old_str)
                r == handle_tool_call(Self, now, tool_input)
                after == Get(r.self.memory_blocks[find_in_tiers(r.self, KeyA)], KeyA).content
            IN k >= 1 =>
                   /\ Reported(r.result, tool_input.path) = ToString(k)
                   /\ Occurrences(tool_input.new_str, tool_input.old_str) = {} =>
                          Occurrences(after, tool_input.old_str) = {}

\* C17, amended: a str_replace on a content of at most MaxTextLen letters in
\* which old_str occurs reports the
\* number k of occurrences that do not overlap, which is the number of
\* occurrences when old_str is one character; the resulting content is longer
\* by k times the difference in length of new_str and old_str; and it contains
\* no occurrence of old_str when old_str is one character that new_str does not
\* contain.  When old_str does not occur, the command is an Error and the content
\* is unchanged.
ReplaceCountsDisjointOccurrences ==
    \A tool_input \in ReplaceInputs :
        (TiersOf(KeyA) # {} /\ Len(StoredText) <= MaxTextLen) =>
            LET old_str == tool_input.old_str
                new_str == tool_input.new_str
                content == StoredText
                k == Disjoint(content, old_str)
                r == handle_tool_call(Self, now, tool_input)
                after == Get(r.self.memory_blocks[find_in_tiers(r.self, KeyA)], KeyA).content
            IN IF Occurrences(content, old_str) = {}
               THEN /\ r.result = Error(<<" String not found in file">>)
                    /\ after = content
               ELSE /\ Reported(r.result, tool_input.path) = ToString(k)
                    /\ Len(old_str) = 1 => k = Cardinality(Occurrences(content, old_str))
                    /\ PyLen(after) = PyLen(content) + k * (PyLen(new_str) - PyLen(old_str))
                    /\ (Len(old_str) = 1 /\ Occurrences(new_str, old_str) = {}) =>
                           Occurrences(after, old_str) = {}

\* a str_replace of "ab" by the empty text just reported one replacement and
\* left the content "ab": the text around the replaced occurrence closed up to
\* a new occurrence
ReplacementFormedOccurrence ==
    /\ ncalls > 0
    /\ call.command = "str_replace"
    /\ call.old_str = <<"a", "b">>
    /\ call.new_str = <<>>
    /\ ret = <<"Replaced ", "1", " occurrence(s) in ">> \o call.path
    /\ TiersOf(KeyA) = {WORKING}
    /\ Get(memory_blocks[WORKING], KeyA).content = <<"a", "b">>

\* the list whose join with "\n" is s
RECURSIVE LinesJoined(_)
LinesJoined(s) ==
    LET j == FindFrom(s, <<"\n">>, 1)
    IN IF j = 0 THEN <<s>> ELSE <<SubSeq(s, 1, j - 1)>> \o LinesJoined(Drop(s, j))

\* L padded with empty lines up to length n, with text inserted at 0-indexed
\* position n
PaddedWithLineAt(L, n, text) ==
    [i \in 1..((IF Len(L) > n THEN Len(L) ELSE n) + 1) |->
        IF i <= n THEN (IF i <= Len(L) THEN L[i] ELSE <<>>)
        ELSE IF i = n + 1 THEN text
        ELSE L[i - 1]]

\* the insert commands of C18
LineInserts == {tool_input \in LinesInputs : Command(tool_input) = "insert"}

\* C18: insert(path, n, text) with n >= 0 on an existing block whose content
\* splits into the lines L stores the join of the list obtained from L by padding
\* it with empty lines up to length n and inserting text at 0-indexed position n:
\* max(len(L), n) + 1 lines, line n is text, before it L (padded), after it the
\* lines of L from position n on.
InsertPadsAndPlacesLine ==
    \A tool_input \in LineInserts :
        TiersOf(KeyA) # {} =>
            LET L == SplitLines(StoredText)
                n == tool_input.insert_line
                r == handle_tool_call(Self, now, tool_input)
                after == Get(r.self.memory_blocks[find_in_tiers(r.self, KeyA)], KeyA).content
                lines == LinesJoined(after)
            IN /\ r.result = <<"Inserted text at line ", ToString(n), " in ">> \o tool_input.path
               /\ lines = PaddedWithLineAt(L, n, tool_input.insert_text)
               /\ Len(lines) = (IF Len(L) > n THEN Len(L) ELSE n) + 1
               /\ lines[n + 1] = tool_input.insert_text
               /\ \A i \in 1..Len(L) : IF i <= n THEN lines[i] = L[i] ELSE lines[i + 1] = L[i]

\* "X" was just inserted at line 5 of a block that held the two lines "A" and "B"
InsertedBeyondTheEnd ==
    /\ ncalls > 0
    /\ call.command = "insert"
    /\ call.insert_line = 5
    /\ ret = <<"Inserted text at line ", "5", " in ">> \o call.path
    /\ StoredText = <<"A", "\n", "B", "\n", "\n", "\n", "\n", "X">>

\* C19: insert on a key stored in no tier does exactly what create(path, text)
\* does when the line is 0 (same store, same files, same result), and returns an
\* Error leaving the store and the files as they were when the line is not 0;
\* insert with a negative line returns an Error and leaves every block and file
\* as it was, whether the key is stored or not.
InsertOnMissingKeyCreates ==
    \A path \in {PathA, PathB} :
        \A text \in {<<>>, Run4000} :
            \A n \in {-1, 0, 2} :
                LET ins == handle_tool_call(Self, now, [command |-> "insert", path |-> path,
                                                        insert_line |-> n, insert_text |-> text])
                    cre == handle_tool_call(Self, now, [command |-> "create", path |-> path,
                                                        file_text |-> text])
                IN /\ TiersOf(validate_path(path)) = {} =>
                          IF n = 0
                          THEN /\ ins.self = cre.self
                               /\ ins.result = cre.result
                               /\ TiersIn(ins.self, validate_path(path)) # {}
                          ELSE /\ IsError(ins.result)
                               /\ ins.self.memory_blocks = memory_blocks
                               /\ ins.self.files = files
                   /\ n < 0 =>
                          /\ IsError(ins.result)
                          /\ ins.self.memory_blocks = memory_blocks
                          /\ ins.self.files = files

\* an insert at line 0 just created the block of a key that was stored nowhere
InsertCreatedMissingKey ==
    /\ ncalls > 0
    /\ call.command = "insert"
    /\ call.insert_line = 0
    /\ ret = <<"Created file: ">> \o call.path \o <<" (tier: ", "working", ")">>
    /\ TiersOf(CallKey) = {WORKING}
    /\ Get(memory_blocks[WORKING], CallKey).content = call.insert_text
    /\ Get(memory_blocks[WORKING], CallKey).access_count = 0

\* the access history recorded for key, empty when there is none
HistoryOf(patterns, key) == IF key \in DOMAIN patterns THEN patterns[key] ELSE <<>>

\* C20: the view command, before the reorganization check that follows it: a
\* successful view of a key adds one to the access_count of the block it
\* returns, sets that block's last_access to now, appends now to the key's
\* access history, makes the prediction set the other keys with an access
\* within 10 s of now, and leaves every other block and every other history as
\* it was; a view of the root or of a key stored nowhere changes no block, no
\* history and not the prediction set.
ViewRecordsOneAccess ==
    \A path \in {Root, PathA, PathB} :
        LET key == validate_path(path)
            r == Catch(handler(Self, now, [command |-> "view", path |-> path]))
        IN IF path # Root /\ TiersOf(key) # {}
           THEN LET tier == find_in_tiers(Self, key)
                    block == Get(memory_blocks[tier], key)
                    after == r.self.memory_blocks
                IN /\ r.result = block.content
                   /\ TiersIn(r.self, key) = TiersOf(key)
                   /\ Get(after[tier], key) = [block EXCEPT !.access_count = block.access_count + 1,
                                                            !.last_access = now]
                   /\ \A t \in Tiers :
                          /\ Len(after[t]) = Len(memory_blocks[t])
                          /\ \A i \in DOMAIN after[t] :
                                 (t # tier \/ after[t][i].key # key) =>
                                     after[t][i] = memory_blocks[t][i]
                   /\ r.self.access_patterns[key] = Append(HistoryOf(access_patterns, key), now)
                   /\ DOMAIN r.self.access_patterns = DOMAIN access_patterns \cup {key}
                   /\ \A k \in DOMAIN access_patterns \ {key} :
                          r.self.access_patterns[k] = access_patterns[k]
                   /\ r.self.predicted_next =
                          {k \in DOMAIN access_patterns \ {key} :
                              \E i \in DOMAIN access_patterns[k] :
                                  /\ access_patterns[k][i] - now < 10
                                  /\ now - access_patterns[k][i] < 10}
           ELSE /\ r.self.memory_blocks = memory_blocks
                /\ r.self.access_patterns = access_patterns
                /\ r.self.predicted_next = predicted_next

\* the block of KeyA, created at time 0, was just viewed for the second time,
\* 100 s after the first
ViewedTwice ==
    /\ ncalls > 0
    /\ call = [command |-> "view", path |-> PathA]
    /\ now = 100
    /\ TiersOf(KeyA) = {WORKING}
    /\ Get(memory_blocks[WORKING], KeyA).access_count = 2
    /\ Get(memory_blocks[WORKING], KeyA).last_access = 100
    /\ access_patterns[KeyA] = <<0, 100>>
    /\ ret = Get(memory_blocks[WORKING], KeyA).content

\* the str_replace and insert commands of C21
Writes == {tool_input \in WritesInputs : Command(tool_input) \in {"str_replace", "insert"}}

\* C21, as stated: a successful str_replace or insert leaves the last_access of
\* the block it changed as it was.
WritesLeaveLastAccess ==
    \A tool_input \in Writes :
        TiersOf(KeyA) # {} =>
            LET block == Get(memory_blocks[find_in_tiers(Self, KeyA)], KeyA)
                h == Catch(handler(Self, now, tool_input))
            IN ~IsError(h.result) =>
                   Get(h.self.memory_blocks[find_in_tiers(h.self, KeyA)], KeyA).last_access
                       = block.last_access

\* C21, amended: a successful str_replace or insert sets the last_access of the
\* block it changed to now and adds one to its access_count, as a view does, and
\* leaves the access history and the prediction set as they were; and a pass
\* that the same command triggers leaves the block in working when the command
\* placed it there and the key is stored in no other tier, however long ago it
\* was created or last viewed.
WritesRefreshLastAccess ==
    \A tool_input \in Writes :
        TiersOf(KeyA) # {} =>
            LET block == Get(memory_blocks[find_in_tiers(Self, KeyA)], KeyA)
                h == Catch(handler(Self, now, tool_input))
                written == Get(h.self.memory_blocks[find_in_tiers(h.self, KeyA)], KeyA)
                r == handle_tool_call(Self, now, tool_input)
            IN ~IsError(h.result) =>
                   /\ written.last_access = now
                   /\ written.access_count = block.access_count + 1
                   /\ written.created_at = block.created_at
                   /\ h.self.access_patterns = access_patterns
                   /\ h.self.predicted_next = predicted_next
                   /\ (h.self.placed = WORKING /\ TiersIn(h.self, KeyA) = {WORKING}) =>
                          /\ TiersIn(r.self, KeyA) = {WORKING}
                          /\ Get(r.self.memory_blocks[WORKING], KeyA) = written

\* a block created 601 s ago and never viewed was just written by the 10th
\* command: the pass ran and left it in working
WrittenBlockSurvivesPass ==
    /\ ncalls > 0
    /\ call.command = "str_replace"
    /\ ret = <<"Replaced ", "1", " occurrence(s) in ">> \o call.path
    /\ pass_ran
    /\ now = 601
    /\ moves = <<>>
    /\ KeyA \notin DOMAIN access_patterns
    /\ TiersOf(KeyA) = {WORKING}
    /\ Get(memory_blocks[WORKING], KeyA).created_at = 0
    /\ Get(memory_blocks[WORKING], KeyA).last_access = 601

\* the requests of C22: those of CounterInputs, and one without a command
Requests == CounterInputs \cup {[path |-> PathA]}

IncompleteRequestsRejected ==
    \A tool_input \in Incomplete :
        LET h == Catch(handler(Self, now, tool_input))
        IN /\ IsError(h.result)
           /\ h.self.memory_blocks = memory_blocks

\* C23, amended: every such request but a create without file_text returns an
\* "Error:" string and its handler leaves the blocks, the files and the access
\* data as they were; a create without file_text does what a create with the
\* empty text does.
IncompleteRequestsButCreateRejected ==
    \A tool_input \in Incomplete :
        LET h == Catch(handler(Self, now, tool_input))
        IN IF tool_input = [command |-> "create", path |-> PathA]
           THEN /\ h = Catch(handler(Self, now, [command |-> "create", path |-> PathA,
                                                file_text |-> <<>>]))
                /\ ~IsError(h.result)
                /\ Get(h.self.memory_blocks[h.self.placed], KeyA).content = <<>>
           ELSE /\ IsError(h.result)
                /\ Len(h.result) = 2
                /\ h.self.memory_blocks = memory_blocks
                /\ h.self.files = files
                /\ h.self.access_patterns = access_patterns
                /\ h.self.predicted_next = predicted_next

\* a create without file_text just stored an empty block
CreatedWithoutText ==
    /\ ncalls > 0
    /\ call = [command |-> "create", path |-> PathA]
    /\ ret = <<"Created file: ">> \o PathA \o <<" (tier: ", "working", ")">>
    /\ TiersOf(KeyA) = {WORKING}
    /\ Get(memory_blocks[WORKING], KeyA).content = <<>>
    /\ files[WORKING][KeyA] = <<>>

\* the command cannot be carried out in the store as it is: the key it is
\* addressed to is stored nowhere, the text to replace does not occur, the line
\* is negative, or the new key of a rename is taken
Fails(tool_input) ==
    LET key == AddressedKey(tool_input)
        stored == TiersOf(key) # {}
    IN CASE Command(tool_input) = "view" -> ~stored
         [] Command(tool_input) = "create" -> FALSE
         [] Command(tool_input) = "str_replace" ->
                ~stored \/ ~Contains(Get(memory_blocks[find_in_tiers(Self, key)], key).content,
                                     tool_input.old_str)
         [] Command(tool_input) = "insert" ->
                tool_input.insert_line < 0 \/ (~stored /\ tool_input.insert_line # 0)
         [] Command(tool_input) = "delete" -> ~stored
         [] Command(tool_input) = "rename" ->
                ~stored \/ TiersOf(validate_path(tool_input.new_path)) # {}
         [] OTHER -> TRUE

\* C24: the string a command returns starts with "Error:" if and only if the
\* command failed, whatever the store holds; a view that finds its block does
\* not return a string starting with "Error:".
ErrorPrefixIffFailed ==
    \A tool_input \in PrefixInputs :
        IsError(handle_tool_call(Self, now, tool_input).result) <=> Fails(tool_input)

\* C28: find returns a tier whose mapping holds the key whenever some tier holds
\* it, and not-found exactly when none does; putting the key into the
\* prediction set or taking it out changes neither the tier nor the block found.
FindIsIndependentOfPrediction ==
    \A key \in {KeyA, KeyB} :
        LET found == find_in_tiers(Self, key)
            predicted == [Self EXCEPT !.predicted_next = @ \cup {key}]
            unpredicted == [Self EXCEPT !.predicted_next = @ \ {key}]
        IN /\ (found = None) <=> (TiersOf(key) = {})
           /\ found # None => found \in TiersOf(key)
           /\ find_in_tiers(predicted, key) = find_in_tiers(unpredicted, key)
           /\ found # None =>
                  Get(predicted.memory_blocks[find_in_tiers(predicted, key)], key)
                      = Get(unpredicted.memory_blocks[find_in_tiers(unpredicted, key)], key)

\* a key of the prediction set is stored in overflow only, where the fast path
\* does not look
PredictedKeyFoundInOverflow ==
    \E key \in predicted_next :
        /\ TiersOf(key) = {OVERFLOW}
        /\ find_in_tiers(Self, key) = OVERFLOW

\* the latest command was a view that returned the content of the block
\* stored under key
ViewedLast(key) ==
    /\ ncalls > 0 /\ ~IsError(ret)
    /\ Command(call) = "view"
    /\ call.path # Root
    /\ AddressedKey(call) = key

\* C29: right after a successful view of key k the prediction set is exactly
\* the set of the other keys that have a recorded timestamp less than 10 s away
\* from k's most recent timestamp: earlier members are dropped, k is not a
\* member, and a key without a recorded access is not a member.
PredictionSetAfterView ==
    \A k \in {KeyA, KeyB} :
        ViewedLast(k) =>
            LET last == access_patterns[k][Len(access_patterns[k])]
                near(j) == \E i \in DOMAIN access_patterns[j] :
                               /\ access_patterns[j][i] < last + 10
                               /\ last < access_patterns[j][i] + 10
            IN /\ \A j \in {KeyA, KeyB} \ {k} :
                      j \in predicted_next <=> (j \in DOMAIN access_patterns /\ near(j))
               /\ k \notin predicted_next
               /\ predicted_next \subseteq {KeyA, KeyB}
               /\ \A j \in predicted_next : HistoryOf(access_patterns, j) # <<>>

\* key b was viewed less than 10 s before a view of key a, which predicted it,
\* and the latest view of a, 10 s or more after, has dropped it
EarlierPredictionDropped ==
    /\ ViewedLast(KeyA)
    /\ Len(access_patterns[KeyA]) >= 2
    /\ KeyB \in DOMAIN access_patterns
    /\ \E i \in DOMAIN access_patterns[KeyB] :
           LET before == access_patterns[KeyA][Len(access_patterns[KeyA]) - 1]
           IN /\ access_patterns[KeyB][i] < before
              /\ before < access_patterns[KeyB][i] + 10
    /\ predicted_next = {}

\* what a view of key would return from the engine self, with the counters of
\* the block it would read
Visible(self, key) ==
    LET block == Get(self.memory_blocks[find_in_tiers(self, key)], key)
    IN [content |-> block.content, access_count |-> block.access_count,
        last_access |-> block.last_access]

SamePlacementApart(before, after) ==
    /\ \A key \in {KeyA, KeyB} :
           /\ (TiersIn(after, key) = {}) <=> (TiersIn(before, key) = {})
           /\ TiersIn(before, key) # {} => Visible(after, key) = Visible(before, key)
    /\ after.access_patterns = before.access_patterns

\* C30: a reorganization pass changes tier placement only: the stored keys, and
\* for each key the content a view returns, its access_count, its last_access
\* and its access history, are after the pass what they were before it.
PassChangesPlacementOnly ==
    \A tool_input \in DeepInputs :
        LET h == handler(Self, now, tool_input)
            due == [h.self EXCEPT !.reorganize_counter = @ + 1, !.pass_ran = TRUE]
        IN (~h.raised /\ due.reorganize_counter >= ReorganizeThreshold) =>
               SamePlacementApart(due, reorganize_memories(due, now).self)

\* every command with a path that names something outside the base directory
OutsideRequests ==
    [command : {"view", "delete"}, path : OutsidePaths]
    \cup [command : {"create"}, path : OutsidePaths, file_text : {Small}]
    \cup [command : {"str_replace"}, path : OutsidePaths, old_str : {Secret}, new_str : {Small}]
    \cup [command : {"insert"}, path : OutsidePaths, insert_line : {0, 1}, insert_text : {Small}]
    \cup [command : {"rename"}, old_path : OutsidePaths, new_path : {PathA, SecretFromRoot}]
    \cup [command : {"rename"}, old_path : {Root, PathA}, new_path : OutsidePaths]

\* the string starts with "Error" and shows nothing of the file outside, and
\* the disk is as it was
Refused(before, after, result) ==
    /\ IsError(result)
    /\ ~Contains(result, Secret)
    /\ after = before

\* C26: in MemoryToolHandler and ClaudeOfficialMemory every command with a
\* path through ".." that resolves outside the base directory returns a string
\* starting with "Error", and reads, creates, modifies, renames and deletes
\* nothing outside the base directory.
TraversalRefused ==
    \A tool_input \in OutsideRequests :
        LET t == tool_handle_tool_call(tool_memory, tool_input)
            o == official_handle_tool_call(official_memory, tool_input)
        IN /\ Refused(tool_memory, t.disk, t.result)
           /\ Refused(official_memory, o.disk, o.result)
           /\ \A disk \in {tool_memory, official_memory} :
                  /\ disk.dirs \ {<<>>, <<"srv">>} \subseteq {p \in disk.dirs : IsPrefix(BasePath, p)}
                  /\ \A p \in DOMAIN disk.files : IsPrefix(BasePath, p) \/ p = SecretPath
                  /\ disk.files[SecretPath] = Secret
                  /\ {<<>>, <<"srv">>} \subseteq disk.dirs

\* both handlers have refused a create on the file next to the base directory,
\* and one has a file of its own
TraversalWasRefused ==
    /\ request = [command |-> "create", path |-> SecretFromRoot, file_text |-> Small]
    /\ results.tool = Error(PathTraversal(<<"..", "/", "secret">>))
    /\ results.official = Error(PathTraversal(<<"..", "/", "secret">>))
    /\ IsFile(tool_memory, BasePath \o <<"a">>)

\* C27: in MemoryToolHandler and ClaudeOfficialMemory delete of "/memories"
\* returns a string containing "Error", and after any sequence of commands the
\* base directory still exists.
RootCannotBeDeleted ==
    LET rm == [command |-> "delete", path |-> Root]
    IN /\ IsDir(tool_memory, BasePath)
       /\ IsDir(official_memory, BasePath)
       /\ IsError(tool_handle_tool_call(tool_memory, rm).result)
       /\ IsError(official_handle_tool_call(official_memory, rm).result)

\* C25: for any sequence of commands on single-segment paths handed alike to
\* ClaudeOfficialMemory, ReverseEngineeredMemory and AdvancedMemory, each
\* starting empty, every view of a file path returns the same in all three:
\* the same content, or an Error in all three.
ViewsAgree ==
    (ncalls > 0 /\ request = call /\ Command(call) = "view") =>
        IF IsError(results.official)
        THEN IsError(results.reverse) /\ IsError(ret)
        ELSE results.reverse = results.official /\ ret = results.official

\* the texts that follow "Error:" when a handler finds the key missing, the new
\* key taken, the text to replace absent or the line invalid
Rejections ==
    {" Path does not exist: ", " File does not exist: ", " Source path does not exist: ",
     " Destination already exists: ", " String not found in file",
     " Line number must be non-negative", " Cannot insert at line "}

Rejected(result) == IsError(result) /\ Len(result) >= 2 /\ result[2] \in Rejections

\* commands that can be rejected: on either key, with a text that no stored
\* content holds, at a line below zero and at a line of a key that may be missing
RejectedInputs ==
    [command : {"view", "delete"}, path : {PathA, PathB}]
    \cup [command : {"str_replace"}, path : {PathA, PathB}, old_str : {<<"Z">>, Small},
          new_str : {Run4000}]
    \cup [command : {"insert"}, path : {PathA, PathB}, insert_line : {-1, 2}, insert_text : {Small}]
    \cup [command : {"rename"}, old_path : {PathA, PathB}, new_path : {PathA, PathB}]

\* what C31 says a rejected command leaves alone
StoreOf(self) ==
    <<self.memory_blocks, self.files, self.access_patterns, self.predicted_next>>

\* C31: a command whose handler returns a not-found, already-exists,
\* content-mismatch or invalid-argument Error changes no tier mapping, no block,
\* no backing file, no access history and not the prediction set; the call
\* returns that Error, and when the check that follows the handler runs no
\* pass it has only counted the command.
RejectedCommandChangesNothing ==
    \A tool_input \in RejectedInputs :
        LET h == handler(Self, now, tool_input)
            r == handle_tool_call(Self, now, tool_input)
        IN Rejected(h.result) =>
               /\ ~h.raised
               /\ StoreOf(h.self) = StoreOf(Self)
               /\ r.raised \/ r.result = h.result
               /\ ~r.self.pass_ran =>
                      /\ StoreOf(r.self) = StoreOf(Self)
                      /\ r.self.reorganize_counter = reorganize_counter + 1

\* a rename onto a stored key has just been refused, with both keys stored
RenameOntoStoredKeyRefused ==
    /\ ncalls > 0
    /\ call.command = "rename"
    /\ ret = Error(<<" Destination already exists: ">> \o call.new_path)
    /\ TiersOf(KeyA) # {} /\ TiersOf(KeyB) # {}

\* C32: once a file operation has failed inside a command, memory and disk
\* still agree between commands: every key of a tier mapping has its file in
\* that tier's directory with the block's content, every file has its block,
\* and no file name is in two tier directories.
FailureLeavesMemoryAndDiskAgreeing ==
    io_failed =>
        /\ \A tier \in Tiers :
               /\ DictKeys(memory_blocks[tier]) = DOMAIN files[tier]
               /\ \A key \in DOMAIN files[tier] \cap DictKeys(memory_blocks[tier]) :
                      files[tier][key] = Get(memory_blocks[tier], key).content
        /\ \A t1 \in Tiers, t2 \in Tiers :
               t1 # t2 => DOMAIN files[t1] \cap DOMAIN files[t2] = {}

\* the paths of C33: every string of at most MaxPathLen of the tokens
MaxPathLen == 4

PathTokens == {"/memories", "/", "a", "_"}

Paths == UNION {[1..k -> PathTokens] : k \in 0..MaxPathLen}

\* the sanitizer's part of C33: the key of every path holds no "/", the key of
\* a key is the key itself, and the nested and the flat spelling have one key
SanitizedKeyIsFlat ==
    /\ \A path \in Paths :
           /\ \A i \in DOMAIN validate_path(path) : validate_path(path)[i] \notin {"/", "/memories"}
           /\ validate_path(validate_path(path)) = validate_path(path)
    /\ validate_path(PathNested) = validate_path(PathFlat)

\* C33: the sanitizer gives every path a key without "/", is the identity on
\* its own output, and gives "/memories/a/b" and "/memories/a_b" one key; so in
\* every reachable state a create through one of the two that succeeds,
\* followed by a view through the other, returns the text created.
AliasesAddressOneBlock ==
    /\ SanitizedKeyIsFlat
    /\ \A p \in {PathNested, PathFlat}, q \in {PathNested, PathFlat} :
           \A file_text \in {Small, Run500} :
               LET c == handle_tool_call(Self, now, [command |-> "create", path |-> p,
                                                     file_text |-> file_text])
                   v == handle_tool_call(c.self, now, [command |-> "view", path |-> q])
               IN (p # q /\ ~IsError(c.result)) => v.result = file_text

\* the paths that have an entry in the cache
CachedPaths(self) == {self.cache[i].key : i \in DOMAIN self.cache}

\* the cached path that was read or written least recently
LeastRecentlyUsed(self) ==
    LET at == CHOOSE i \in DOMAIN used :
                  /\ used[i] \in CachedPaths(self)
                  /\ \A j \in 1..(i - 1) : used[j] \notin CachedPaths(self)
    IN used[at]

\* the paths whose entry the command itself takes out of the cache: the path
\* of a delete and the old path of a rename
TakenOut(tool_input) ==
    IF tool_input.command = "delete" THEN {IndexKey(tool_input.path)}
    ELSE IF tool_input.command = "rename" THEN {IndexKey(tool_input.old_path)}
    ELSE {}

\* C34: the cache of a ReverseEngineeredMemory never holds more than 10
\* entries; a command makes an entry leave the cache, other than the entry of
\* the path it deletes or renames, only when the cache is full and the command
\* adds a path that was not cached; and the entry that leaves is then the one
\* read or written least recently
CacheIsBoundedLRU ==
    /\ Len(reverse_memory.cache) <= CacheSize
    /\ \A tool_input \in CacheInputs \cup FillInputs :
           LET r == reverse_handle_tool_call(reverse_memory, tool_input)
               evicted == (CachedPaths(reverse_memory) \ CachedPaths(r.self))
                              \ TakenOut(tool_input)
           IN evicted # {} =>
                  /\ Len(reverse_memory.cache) = CacheSize
                  /\ CachedPaths(r.self) \ CachedPaths(reverse_memory) # {}
                  /\ evicted = {LeastRecentlyUsed(reverse_memory)}

\* C34, its first part alone: the cache never holds more than 10 entries
CacheIsBounded == Len(reverse_memory.cache) <= CacheSize

\* the cache is full and an eleventh file has been created
CacheWasFull ==
    /\ Len(reverse_memory.cache) = CacheSize
    /\ Cardinality(FilesOnDisk) = CacheSize + 1

\* C35: the cache of a ReverseEngineeredMemory agrees with the disk: whatever
\* creates, edits, deletes and renames were issued, a view of a file returns
\* the content the file has on disk
ViewReturnsDiskContent ==
    \A name \in FilesOnDisk :
        reverse_handle_tool_call(reverse_memory, [command |-> "view", path |-> PathOf(name)]).result
            = DiskRead(reverse_memory.disk, BasePath \o <<name>>)

\* some key has more than 3 recorded accesses within a window of 300 seconds
SomeKeyHot ==
    \E path \in DOMAIN access_patterns :
        \E i \in DOMAIN access_patterns[path] :
            Cardinality({j \in DOMAIN access_patterns[path] :
                            /\ access_patterns[path][j] >= access_patterns[path][i]
                            /\ access_patterns[path][j] - access_patterns[path][i] < RecentWindow})
                > RecentAccesses

\* C36: as long as no key has more than 3 recorded accesses within 300
\* seconds, the sizes of the blocks in the working tier add up to at most 4096
\* between any two commands, whatever creates, edits, renames, deletes and
\* passes came before
WorkingTotalWithinLimit == ~SomeKeyHot => WorkingSize(Self) <= WorkingLimit

\* no key is hot, the working tier is full to the last character, and the
\* block of /memories/b has just grown by one character where it lay and has
\* left the working tier for the archival tier
GrownBlockLeftFullWorkingTier ==
    /\ ~SomeKeyHot
    /\ Given(call, "command") /\ call.command = "str_replace"
    /\ ~IsError(ret)
    /\ WorkingSize(Self) = WorkingLimit - PyLen(Run96)
    /\ Has(memory_blocks[ARCHIVAL], KeyB)
    /\ Get(memory_blocks[ARCHIVAL], KeyB).size_bytes = PyLen(Run97)
    /\ moves # <<>>

\* C37: a str_replace whose new_str is as long as its old_str, on a block that
\* is in the working tier and whose key has at most 3 recent accesses, leaves
\* the block in the working tier
SameSizeEditStaysInWorking ==
    \A tool_input \in SameSizeEdits :
        LET key == validate_path(tool_input.path)
            h == str_replace(Self, now, tool_input.path, tool_input.old_str,
                             tool_input.new_str)
        IN (/\ PyLen(tool_input.old_str) = PyLen(tool_input.new_str)
            /\ find_in_tiers(Self, key) = WORKING
            /\ key \in DOMAIN access_patterns => recent_accesses(Self, now, key) <= RecentAccesses
            /\ ~h.raised
            /\ ~IsError(h.result))
           => find_in_tiers(h.self, key) = WORKING

\* C38: every key that has an entry in the access history is stored in some
\* tier: no history is left behind for a key that was deleted or renamed away
HistoryOnlyOfStoredKeys == \A key \in DOMAIN access_patterns : TiersOf(key) # {}

\* C39: every key in the prediction set is stored in some tier
PredictedKeysAreStored == \A key \in predicted_next : TiersOf(key) # {}

\* every stored block is in the overflow tier
AllInOverflow == memory_blocks[WORKING] = <<>> /\ memory_blocks[ARCHIVAL] = <<>>

====
